---- MODULE Spec2Model ----
(***************************************************************************)
(* Model of the zedmirs mirror pipeline: the bounded-queue worker pool     *)
(* (downloader.rs), the progress counters (progress.rs), the three-phase   *)
(* orchestrator with promotion (mirror.rs) and the index builder           *)
(* (index.rs).  One process run of `mirror` is modelled step by step; every *)
(* await point and every atomic load/store is a step of its own.  The      *)
(* run starts on the output root an earlier run may have left behind.      *)
(***************************************************************************)
EXTENDS Integers, Sequences, FiniteSets, TLC

\* ---------------------------------------------------------------- bounds
\* Largest worker count (MirrorOpts.dl_threads) explored; 0 is explored too.
MaxThreads == 2
\* Capacity of the task channel.  The source has bounded(1024)
\* (downloader.rs:31); the model uses a small capacity so that the full
\* queue is reached with a small catalog.
QueueCapacity == 1
\* Largest number of records the upstream catalog lists.
MaxCatalog == 2
\* Largest number of chunks of one response body; every chunk is one byte.
MaxChunks == 1
\* Longest text of a request parameter, in characters
MaxText == 3
\* Longest filter parameter of the browse route, in characters
MaxFilter == 1
\* Documents in the index the server opened
MaxDocs == 2
\* Largest schema version in a request (the smallest is 0); documents have
\* the versions strictly between.
MaxSchemaVersion == 2

\* ------------------------------------------------------------- constants
\* Progress::new stores 4 in total_steps; mirror() then stores 3.
InitialTotalSteps == 4
MirrorTotalSteps == 3
\* AtomicU8 step counter.
U8Modulus == 256

\* ------------------------------------------------------------ data model
NoStr == "none"
Ids == {"a"}
Versions == {"1", "2"}

\* A catalog record as far as the mirror reads it: the "id" and "version"
\* keys, each a string or missing (NoStr).
Records ==
    { [id |-> "a", version |-> "1"],
      [id |-> "a", version |-> "2"],
      [id |-> NoStr, version |-> "1"],
      [id |-> "a", version |-> NoStr] }

RECURSIVE SeqsUpTo(_, _)
SeqsUpTo(S, n) ==
    IF n = 0 THEN { <<>> }
    ELSE LET shorter == SeqsUpTo(S, n - 1)
         IN shorter \cup { Append(s, x) : s \in { t \in shorter : Len(t) = n - 1 }, x \in S }

Catalogs == SeqsUpTo(Records, MaxCatalog)

\* Option<u64> size of a Download: NoSize is None.
NoSize == -1
\* TopDocs::with_limit(1000)
TopDocsLimit == 1000

\* struct Download.  kind "cat" is the catalog document (target
\* {tmp}/extensions.json, no symlink_path), kind "arch" an archive (target
\* {output}/extensions/{id}/{version}/archive.tar.gz, symlink_path
\* {output}/extensions/{id}/archive.tar.gz).  n numbers the Box<Download>
\* objects of a run in the order they are built.
Download(n, kind, id, version, always) ==
    [n |-> n, kind |-> kind, id |-> id, version |-> version,
     size |-> NoSize, always |-> always]

NoTask == Download(0, "-", "-", "-", FALSE)

MaxTasks == 1 + MaxCatalog
TaskIds == 1 .. MaxTasks

\* A regular file: absent, or created (empty), partly written, or completely
\* written; body tells what was written ("ok": the body of a success
\* response, "errpage": the body of a non-success, non-404 response); run is
\* the run that created or last truncated it; ino names the inode (by the
\* Download that created the path).
\* Runs are named: the modelled one, the last earlier run that completed,
\* and an earlier run that failed after it.
NoRun == "-"
PriorRun == "prior"
StaleRun == "stale"
ThisRun == "this"
AbsentFile == [st |-> "absent", body |-> "-", run |-> NoRun, ino |-> 0]

\* An index directory: absent, created (schema written, nothing committed)
\* or committed with docs documents; run is the run that created it.
AbsentIdx == [st |-> "absent", run |-> NoRun, docs |-> 0]

ArchKeys == Ids \X Versions

\* struct ProgressPart
NewPart == [total |-> 0, success |-> 0, skipped |-> 0, failed |-> 0]

Threads == 1 .. MaxThreads
\* A worker task: its position, the Download it holds, the inode its output
\* file handle refers to, the chunks left in the response and the kind of
\* body, the local `downloaded`, and what download_file returned.
IdleWorker(p) ==
    [pc |-> p, task |-> NoTask, ino |-> 0, left |-> 0, body |-> "-", dl |-> FALSE, res |-> "-"]
NewWorker == IdleWorker("recv")
NoWorker == IdleWorker("unspawned")

\* ------------------------------------------------------------- variables
VARIABLES
    \* environment
    numThreads,   \* opts.dl_threads of the current run
    upstream,     \* the catalog the registry serves
    \* mirror() and the functions it calls
    pc,           \* position of the orchestrator
    errCtx,       \* context of the error mirror() returned, "-" if none
    extList,      \* the parsed ExtensionListData
    recIdx,       \* loop index over extList.data
    curTask,      \* the Download being queued
    nextN,        \* number of the next Download built
    acc,          \* running value of ProgressPart::remaining()
    nsPos,        \* number of stores ProgressPart::reset has done
    \* Progress
    step, totalSteps, stepName, files, bytes, totalBytes,
    \* Downloader
    queue,        \* the bounded channel
    workers,      \* the spawned worker tasks
    \* filesystem under the output root
    tmpDir,       \* {output}/.tmp exists
    stagCat,      \* {output}/.tmp/extensions.json
    stagIdx,      \* {output}/.tmp/idx
    liveCat,      \* {output}/extensions.json
    liveIdx,      \* {output}/idx
    archive,      \* {output}/extensions/{id}/{version}/archive.tar.gz
    alias,        \* {output}/extensions/{id}/archive.tar.gz -> version
    \* history of the run, written but never read by the program
    enqCnt,       \* per Download: times it was put on the channel
    recvCnt,      \* per Download: times a worker received it
    succCnt,      \* per Download: files.inc_success calls made for it
    skipCnt,      \* per Download: files.inc_skipped calls made for it
    outcome,      \* per Download: what download_file returned
    notFound,     \* Downloads whose GET was answered with NOT_FOUND
    phasesOk,     \* phases that returned Ok in this run
    promoted,     \* promote_tmp was entered in this run; the staged artifacts then
    live0,        \* the live root when the run started
    seen,         \* live (catalog, index) pairs a reader could see during promote_tmp
    succeeded,    \* number of runs that returned Ok so far
    \* the task spawn_updater starts
    upd,          \* its position in ProgressPart::remaining() and the running value
    \* the serve command
    docs,         \* the documents of the index the server opened
    request,      \* the request being answered
    response      \* the documents the handler returned for it

envVars == <<numThreads, upstream>>
updVars == <<upd>>
searchVars == <<docs, request, response>>
orchVars == <<pc, errCtx, extList, recIdx, curTask, nextN, acc, nsPos>>
progVars == <<step, totalSteps, stepName, files, bytes, totalBytes>>
poolVars == <<queue, workers>>
fsVars == <<tmpDir, stagCat, stagIdx, liveCat, liveIdx, archive, alias>>
histVars == <<enqCnt, recvCnt, succCnt, skipCnt, outcome, notFound, phasesOk, promoted, live0, seen, succeeded>>
vars == <<envVars, updVars, searchVars, orchVars, progVars, poolVars, fsVars, histVars>>

ZeroCnt == [n \in TaskIds |-> 0]
NoOutcome == [n \in TaskIds |-> "-"]
LiveRoot == <<liveCat, liveIdx, archive, alias>>
NotPromoted == [entered |-> FALSE, cat |-> AbsentFile, idx |-> AbsentIdx]

\* No updater task is inside ProgressPart::remaining().
NoUpdater == [pc |-> "none", acc |-> 0]
\* The mirror command serves no request.
NoResponse == [st |-> "none", data |-> {}]
NoServer == docs = <<>> /\ request = [kind |-> "none"] /\ response = NoResponse

\* State of a freshly started process; the filesystem is not touched.
ProcessStart ==
    /\ pc = "start"
    /\ errCtx = "-"
    /\ extList = <<>>
    /\ recIdx = 0
    /\ curTask = NoTask
    /\ nextN = 1
    /\ acc = 0
    /\ nsPos = 0
    /\ step = 0
    /\ totalSteps = InitialTotalSteps
    /\ stepName = ""
    /\ files = NewPart
    /\ bytes = NewPart
    /\ totalBytes = 0
    /\ queue = <<>>
    /\ workers = [w \in Threads |-> NoWorker]
    /\ enqCnt = ZeroCnt
    /\ recvCnt = ZeroCnt
    /\ succCnt = ZeroCnt
    /\ skipCnt = ZeroCnt
    /\ outcome = NoOutcome
    /\ notFound = {}
    /\ phasesOk = {}
    /\ promoted = NotPromoted
    /\ upd = NoUpdater

\* What an earlier run can have left under the output root.  "fresh": no
\* earlier run.  "promoted": an earlier run completed.  "stale_catalog": an
\* earlier run fetched the catalog and then failed reading it (an I/O error
\* in download_extensions).  "stale_staging": after a completed run, another
\* one failed in index_writer.commit().  The archive tree is empty (the
\* earlier catalogs listed nothing).
PriorStates == {"fresh", "promoted", "stale_catalog", "stale_staging"}
PriorCatalog(r) == [st |-> "full", body |-> "ok", run |-> r, ino |-> 1]
PriorIdx(r, st) == [st |-> st, run |-> r, docs |-> 0]

Init ==
    /\ NoServer
    /\ numThreads \in 0 .. MaxThreads
    /\ upstream \in Catalogs
    /\ ProcessStart
    /\ tmpDir = FALSE
    /\ archive = [k \in ArchKeys |-> AbsentFile]
    /\ alias = [i \in Ids |-> NoStr]
    /\ \E prior \in PriorStates :
         /\ stagCat = IF prior \in {"stale_catalog", "stale_staging"} THEN PriorCatalog(StaleRun) ELSE AbsentFile
         /\ stagIdx = IF prior = "stale_staging" THEN PriorIdx(StaleRun, "created") ELSE AbsentIdx
         /\ liveCat = IF prior \in {"promoted", "stale_staging"} THEN PriorCatalog(PriorRun) ELSE AbsentFile
         /\ liveIdx = IF prior \in {"promoted", "stale_staging"} THEN PriorIdx(PriorRun, "committed") ELSE AbsentIdx
         /\ succeeded = IF prior \in {"promoted", "stale_staging"} THEN 1 ELSE 0
    /\ live0 = LiveRoot
    /\ seen = {}

\* mirror() returns Err(ctx): `?` with with_context.
Fail(ctx) ==
    /\ pc' = "failed"
    /\ errCtx' = ctx

Phase1Ctx == "downloading extension list"
Phase2Ctx == "downloading extensions"
Phase3Ctx == "generating index"
PhaseCtx(s) == IF s = 1 THEN Phase1Ctx ELSE IF s = 2 THEN Phase2Ctx ELSE Phase3Ctx

\* ----------------------------------------------- mirror(): start of a run
\* MirrorCtx::init: create_dir_all({output}/.tmp), then Downloader::build
\* spawns num_threads worker tasks, each holding a clone of the receiver.
MirrorCtxInit ==
    /\ pc = "start"
    /\ \E ok \in BOOLEAN :
         IF ok
         THEN /\ tmpDir' = TRUE
              /\ workers' = [w \in Threads |-> IF w <= numThreads THEN NewWorker ELSE NoWorker]
              /\ pc' = "set_total"
              /\ UNCHANGED errCtx
         ELSE /\ Fail("initializing mirror context")
              /\ UNCHANGED <<tmpDir, workers>>
    /\ UNCHANGED <<envVars, updVars, searchVars, extList, recIdx, curTask, nextN, acc, nsPos, progVars, queue,
                   stagCat, stagIdx, liveCat, liveIdx, archive, alias, histVars>>

\* progress.set_total_steps(3)
SetTotalSteps ==
    /\ pc = "set_total"
    /\ totalSteps' = MirrorTotalSteps
    /\ pc' = "ns_name"
    /\ UNCHANGED <<envVars, updVars, searchVars, errCtx, extList, recIdx, curTask, nextN, acc, nsPos,
                   step, stepName, files, bytes, totalBytes, poolVars, fsVars, histVars>>

\* ------------------------------------------------------ Progress::next_step
StepNames == <<"Downloading metadata", "Downloading extensions", "Generating index">>

\* *self.step_name.lock().await = step_name
NextStepName ==
    /\ pc = "ns_name"
    /\ stepName' = StepNames[step + 1]
    /\ nsPos' = 0
    /\ pc' = "ns_reset"
    /\ UNCHANGED <<envVars, updVars, searchVars, errCtx, extList, recIdx, curTask, nextN, acc,
                   step, totalSteps, files, bytes, totalBytes, poolVars, fsVars, histVars>>

\* ProgressPart::reset is four separate stores, in this order.
ResetOrder == <<"total", "success", "skipped", "failed">>
\* A reset that leaves the skipped counter as it is.
ResetStoreOf_KeepsSkipped(part, k) ==
    IF ResetOrder[k] = "skipped" THEN part ELSE [part EXCEPT ![ResetOrder[k]] = 0]
ResetStoreOf(part, k) == [part EXCEPT ![ResetOrder[k]] = 0]

\* self.bytes.reset(); self.files.reset(): the store number nsPos + 1 of eight.
ResetStore ==
    /\ pc = "ns_reset"
    /\ IF nsPos < 4
       THEN bytes' = ResetStoreOf(bytes, nsPos + 1) /\ UNCHANGED files
       ELSE files' = ResetStoreOf(files, nsPos - 3) /\ UNCHANGED bytes
    /\ nsPos' = nsPos + 1
    /\ pc' = IF nsPos + 1 = 8 THEN "ns_add" ELSE "ns_reset"
    /\ UNCHANGED <<envVars, updVars, searchVars, errCtx, extList, recIdx, curTask, nextN, acc,
                   step, totalSteps, stepName, totalBytes, poolVars, fsVars, histVars>>

PhaseEntry(s) == IF s = 1 THEN "p1_build" ELSE IF s = 2 THEN "p2_read" ELSE "p3_init"

\* self.step.fetch_add(1); next_step returns and the phase's function is called.
NextStepAdd ==
    /\ pc = "ns_add"
    /\ step' = (step + 1) % U8Modulus
    /\ pc' = PhaseEntry(step')
    /\ nsPos' = 0
    /\ UNCHANGED <<envVars, updVars, searchVars, errCtx, extList, recIdx, curTask, nextN, acc,
                   totalSteps, stepName, files, bytes, totalBytes, poolVars, fsVars, histVars>>

\* ------------------------------------------------------- Downloader::queue
\* download_extension_list builds the forced catalog Download.
P1Build ==
    /\ pc = "p1_build"
    /\ curTask' = Download(nextN, "cat", "-", "-", TRUE)
    /\ nextN' = nextN + 1
    /\ pc' = "q_inc"
    /\ UNCHANGED <<envVars, updVars, searchVars, errCtx, extList, recIdx, acc, nsPos, progVars, poolVars, fsVars, histVars>>

IncTotal(part, c) == [part EXCEPT !.total = @ + c]
IncSuccess(part, c) == [part EXCEPT !.success = @ + c]
IncSkipped(part, c) == [part EXCEPT !.skipped = @ + c]

\* queue(): bytes.inc_total(size) if a size is given, then files.inc_total(1).
QueueIncTotal ==
    /\ pc = "q_inc"
    /\ bytes' = IF curTask.size # NoSize THEN IncTotal(bytes, curTask.size) ELSE bytes
    /\ files' = IncTotal(files, 1)
    /\ pc' = "q_send"
    /\ UNCHANGED <<envVars, updVars, searchVars, errCtx, extList, recIdx, curTask, nextN, acc, nsPos,
                   step, totalSteps, stepName, totalBytes, poolVars, fsVars, histVars>>

\* The channel is closed when no receiver is left: every clone of the
\* receiver lives in a worker task (build() drops its own).
NoReceiver == \A w \in Threads : workers[w].pc \in {"unspawned", "exited", "killed"}

\* A send that does not wait for room: the task is put on the channel
\* whatever its length.
QueueSend_Unbounded ==
    /\ pc = "q_send"
    /\ ~NoReceiver
    /\ queue' = Append(queue, curTask)
    /\ enqCnt' = [enqCnt EXCEPT ![curTask.n] = @ + 1]
    /\ curTask' = NoTask
    /\ pc' = IF step = 1 THEN "w_total" ELSE "p2_rec"
    /\ recIdx' = IF step = 1 THEN recIdx ELSE recIdx + 1
    /\ UNCHANGED <<envVars, updVars, searchVars, errCtx, extList, nextN, acc, nsPos, progVars, workers, fsVars,
                   recvCnt, notFound, succCnt, skipCnt, outcome, phasesOk, promoted, live0, seen, succeeded>>

\* A pool that keeps a receiver of its own: send() never sees a closed
\* channel and succeeds while there is room.
QueueSend_ReceiverKept ==
    /\ pc = "q_send"
    /\ Len(queue) < QueueCapacity
    /\ queue' = Append(queue, curTask)
    /\ enqCnt' = [enqCnt EXCEPT ![curTask.n] = @ + 1]
    /\ curTask' = NoTask
    /\ pc' = IF step = 1 THEN "w_total" ELSE "p2_rec"
    /\ recIdx' = IF step = 1 THEN recIdx ELSE recIdx + 1
    /\ UNCHANGED <<envVars, updVars, searchVars, errCtx, extList, nextN, acc, nsPos, progVars, workers, fsVars,
                   recvCnt, notFound, succCnt, skipCnt, outcome, phasesOk, promoted, live0, seen, succeeded>>

\* self.sender.send(download_entry).await?: suspended while the channel is
\* full, an error when the channel is closed.
QueueSend ==
    /\ pc = "q_send"
    /\ IF NoReceiver
       THEN /\ Fail(PhaseCtx(step))
            /\ UNCHANGED <<queue, enqCnt, curTask, recIdx>>
       ELSE /\ Len(queue) < QueueCapacity
            /\ queue' = Append(queue, curTask)
            /\ enqCnt' = [enqCnt EXCEPT ![curTask.n] = @ + 1]
            /\ curTask' = NoTask
            /\ pc' = IF step = 1 THEN "w_total" ELSE "p2_rec"
            /\ recIdx' = IF step = 1 THEN recIdx ELSE recIdx + 1
            /\ UNCHANGED errCtx
    /\ UNCHANGED <<envVars, updVars, searchVars, extList, nextN, acc, nsPos, progVars, workers, fsVars,
                   recvCnt, notFound, succCnt, skipCnt, outcome, phasesOk, promoted, live0, seen, succeeded>>

\* ------------------------------------------- Progress::wait_for_completion
\* The positions inside Progress::wait_for_completion's loop.
WaitPcs == {"w_total", "w_success", "w_skipped", "w_failed"}

\* ProgressPart::remaining() is four atomic loads, subtracted left to right.
WaitLoadTotal ==
    /\ pc = "w_total"
    /\ acc' = files.total
    /\ pc' = "w_success"
    /\ UNCHANGED <<envVars, updVars, searchVars, errCtx, extList, recIdx, curTask, nextN, nsPos, progVars, poolVars, fsVars, histVars>>

WaitLoadSuccess ==
    /\ pc = "w_success"
    /\ acc' = acc - files.success
    /\ pc' = "w_skipped"
    /\ UNCHANGED <<envVars, updVars, searchVars, errCtx, extList, recIdx, curTask, nextN, nsPos, progVars, poolVars, fsVars, histVars>>

WaitLoadSkipped ==
    /\ pc = "w_skipped"
    /\ acc' = acc - files.skipped
    /\ pc' = "w_failed"
    /\ UNCHANGED <<envVars, updVars, searchVars, errCtx, extList, recIdx, curTask, nextN, nsPos, progVars, poolVars, fsVars, histVars>>

\* A wait that gives up while one task is still outstanding.
StillRemaining_OffByOne(r) == r > 1

\* while self.files.remaining() > 0 (u64: greater than zero is non-zero)
StillRemaining(r) == r # 0

\* The last load; then either update_for_files and sleep(100ms) and the next
\* round, or the loop ends.
WaitLoadFailed ==
    /\ pc = "w_failed"
    /\ acc' = acc - files.failed
    /\ pc' = IF StillRemaining(acc') THEN "w_total" ELSE "w_finish"
    /\ UNCHANGED <<envVars, updVars, searchVars, errCtx, extList, recIdx, curTask, nextN, nsPos, progVars, poolVars, fsVars, histVars>>

\* total_bytes.fetch_add(bytes.success()); the progress bar is finished;
\* the caller aborts its updater and returns Ok.
WaitFinish ==
    /\ pc = "w_finish"
    /\ totalBytes' = totalBytes + bytes.success
    /\ acc' = 0
    /\ phasesOk' = phasesOk \cup {step}
    /\ pc' = "ns_name"
    /\ UNCHANGED <<envVars, updVars, searchVars, errCtx, extList, recIdx, curTask, nextN, nsPos,
                   step, totalSteps, stepName, files, bytes, poolVars, fsVars,
                   enqCnt, recvCnt, notFound, succCnt, skipCnt, outcome, promoted, live0, seen, succeeded>>

\* ------------------------------------------------------ the worker tasks
\* What no worker step changes.
workerFrame ==
    <<envVars, updVars, searchVars, orchVars, step, totalSteps, stepName, totalBytes, tmpDir, stagIdx,
      liveCat, liveIdx, enqCnt, phasesOk, promoted, live0, seen, succeeded>>

\* The file at download.primary_target_path.
TargetOf(t) == IF t.kind = "cat" THEN stagCat ELSE archive[<<t.id, t.version>>]

SetTarget(t, f) ==
    IF t.kind = "cat"
    THEN stagCat' = f /\ UNCHANGED archive
    ELSE archive' = [archive EXCEPT ![<<t.id, t.version>>] = f] /\ UNCHANGED stagCat

\* A write through the worker's file handle reaches the path only while the
\* path still names the inode the handle was opened on.
WriteTarget(wr, st) ==
    IF TargetOf(wr.task).st # "absent" /\ TargetOf(wr.task).ino = wr.ino
    THEN SetTarget(wr.task, [st |-> st, body |-> wr.body, run |-> ThisRun, ino |-> wr.ino])
    ELSE UNCHANGED <<stagCat, archive>>

\* download.symlink_path is Some
HasSymlink(t) == t.kind = "arch"

\* A needs_downloading that never looks at the target path.
NeedsDownloading_Always(t, existsOk) == TRUE

\* fn needs_downloading; existsOk is whether std::fs::exists returned Ok.
NeedsDownloading(t, existsOk) ==
    IF t.always THEN TRUE
    ELSE IF ~existsOk THEN TRUE
    ELSE ~(TargetOf(t).st # "absent")

\* download.size.is_some_and(|v| v > 0) || download.size.is_none()
NeedsGet(t) == (t.size # NoSize /\ t.size > 0) \/ t.size = NoSize

\* download_file returns r to download_and_track.
Return(w, wr, r) ==
    /\ workers' = [workers EXCEPT ![w] = [wr EXCEPT !.pc = "track", !.res = r]]
    /\ outcome' = [outcome EXCEPT ![wr.task.n] = r]

OkOf(downloaded) == IF downloaded THEN "ok_true" ELSE "ok_false"

\* The end of the `if needs_downloading` block's download part: on to the
\* symlink part, or Ok(downloaded).
AfterBody(w, wr) ==
    IF HasSymlink(wr.task)
    THEN /\ workers' = [workers EXCEPT ![w] = [wr EXCEPT !.pc = "link_rm"]]
         /\ UNCHANGED outcome
    ELSE Return(w, wr, OkOf(wr.dl))

\* while let Ok(dl) = task_receiver.recv().await
\* A receive that leaves the task on the channel (every receiver sees it).
WorkerRecv_Peek(w) ==
    /\ workers[w].pc = "recv"
    /\ queue # <<>>
    /\ workers' = [workers EXCEPT ![w] = [NewWorker EXCEPT !.pc = "check", !.task = Head(queue)]]
    /\ recvCnt' = [recvCnt EXCEPT ![Head(queue).n] = @ + 1]
    /\ UNCHANGED <<workerFrame, files, bytes, queue, stagCat, archive, alias, succCnt, skipCnt, outcome, notFound>>

\* while let Ok(dl) = task_receiver.recv().await
WorkerRecv(w) ==
    /\ workers[w].pc = "recv"
    /\ queue # <<>>
    /\ workers' = [workers EXCEPT ![w] = [NewWorker EXCEPT !.pc = "check", !.task = Head(queue)]]
    /\ queue' = Tail(queue)
    /\ recvCnt' = [recvCnt EXCEPT ![Head(queue).n] = @ + 1]
    /\ UNCHANGED <<workerFrame, files, bytes, stagCat, archive, alias, succCnt, skipCnt, outcome, notFound>>

\* recv() returns Err once the channel is empty and the sender is dropped
\* (mirror() has returned and dropped its MirrorCtx): the loop ends.
WorkerExit(w) ==
    /\ workers[w].pc = "recv"
    /\ queue = <<>>
    /\ pc \in {"completed", "failed"}
    /\ workers' = [workers EXCEPT ![w] = IdleWorker("exited")]
    /\ UNCHANGED <<workerFrame, files, bytes, queue, stagCat, archive, alias,
                   recvCnt, notFound, succCnt, skipCnt, outcome>>

\* if needs_downloading(&download) { ... } else Ok(false)
WorkerCheck(w) ==
    /\ workers[w].pc = "check"
    /\ \E existsOk \in BOOLEAN :
         IF NeedsDownloading(workers[w].task, existsOk)
         THEN /\ workers' = [workers EXCEPT ![w].pc = "create"]
              /\ UNCHANGED outcome
         ELSE Return(w, workers[w], OkOf(FALSE))
    /\ UNCHANGED <<workerFrame, files, bytes, queue, stagCat, archive, alias,
                   recvCnt, notFound, succCnt, skipCnt>>

\* create_dirs(primary_target_path)?; File::create(primary_target_path)?
\* File::create makes the file or truncates the one that is there.
WorkerCreate(w) ==
    /\ workers[w].pc = "create"
    /\ LET wr == workers[w]
           old == TargetOf(wr.task)
           ino == IF old.st = "absent" THEN wr.task.n ELSE old.ino
           opened == [wr EXCEPT !.ino = ino]
       IN \E ok \in BOOLEAN :
            IF ok
            THEN /\ SetTarget(wr.task, [st |-> "empty", body |-> "-", run |-> ThisRun, ino |-> ino])
                 /\ IF NeedsGet(wr.task)
                    THEN /\ workers' = [workers EXCEPT ![w] = [opened EXCEPT !.pc = "get"]]
                         /\ UNCHANGED outcome
                    ELSE AfterBody(w, opened)
            ELSE /\ Return(w, wr, "err")
                 /\ UNCHANGED <<stagCat, archive>>
    /\ UNCHANGED <<workerFrame, files, bytes, queue, alias, recvCnt, notFound, succCnt, skipCnt>>

\* What the upstream answers: no answer (send() fails), 404, a success
\* response, or another status with a body.
Responses == {"error", "404", "ok", "errpage"}

\* A download_file without the NOT_FOUND test: the body of a 404 response is
\* written to the target like any other body.
WorkerGet_No404Test(w) ==
    /\ workers[w].pc = "get"
    /\ LET wr == workers[w]
       IN \E resp \in Responses, n \in 1 .. MaxChunks :
            CASE resp = "error" ->
                   /\ Return(w, wr, "err")
                   /\ UNCHANGED notFound
              [] resp = "404" ->
                   /\ workers' = [workers EXCEPT ![w] =
                                    [wr EXCEPT !.pc = "chunk", !.left = n, !.body = "errpage"]]
                   /\ notFound' = notFound \cup {wr.task.n}
                   /\ UNCHANGED outcome
              [] OTHER ->
                   /\ workers' = [workers EXCEPT ![w] =
                                    [wr EXCEPT !.pc = "chunk", !.left = n, !.body = resp]]
                   /\ UNCHANGED <<outcome, notFound>>
    /\ UNCHANGED <<workerFrame, files, bytes, queue, stagCat, archive, alias,
                   recvCnt, succCnt, skipCnt>>

\* http_client.get(url).send().await?; then the NOT_FOUND test.
WorkerGet(w) ==
    /\ workers[w].pc = "get"
    /\ LET wr == workers[w]
       IN \E resp \in Responses, n \in 1 .. MaxChunks :
            CASE resp = "error" ->
                   /\ Return(w, wr, "err")
                   /\ UNCHANGED notFound
              [] resp = "404" ->
                   /\ workers' = [workers EXCEPT ![w] = [wr EXCEPT !.pc = "rm404"]]
                   /\ notFound' = notFound \cup {wr.task.n}
                   /\ UNCHANGED outcome
              [] OTHER ->
                   /\ workers' = [workers EXCEPT ![w] =
                                    [wr EXCEPT !.pc = "chunk", !.left = n, !.body = resp]]
                   /\ UNCHANGED <<outcome, notFound>>
    /\ UNCHANGED <<workerFrame, files, bytes, queue, stagCat, archive, alias,
                   recvCnt, succCnt, skipCnt>>

\* drop(output); remove_file(primary_target_path)?; bail!("404")
WorkerRemove404(w) ==
    /\ workers[w].pc = "rm404"
    /\ \E ok \in BOOLEAN :
         IF ok /\ TargetOf(workers[w].task).st # "absent"
         THEN SetTarget(workers[w].task, AbsentFile)
         ELSE UNCHANGED <<stagCat, archive>>
    /\ Return(w, workers[w], "err")
    /\ UNCHANGED <<workerFrame, files, bytes, queue, alias, recvCnt, notFound, succCnt, skipCnt>>

\* One round of `while let Some(chunk) = response.chunk().await?`:
\* write_all(&chunk)?; progress_cb(chunk.len()), which is
\* progress.bytes.inc_success.  After the last chunk: output.flush()?;
\* downloaded = true.
WorkerChunk(w) ==
    /\ workers[w].pc = "chunk"
    /\ LET wr == workers[w]
       IN \E ok \in BOOLEAN :
            IF ~ok
            THEN /\ Return(w, wr, "err")
                 /\ UNCHANGED <<stagCat, archive, bytes>>
            ELSE IF wr.left > 0
            THEN /\ WriteTarget(wr, "partial")
                 /\ bytes' = IncSuccess(bytes, 1)
                 /\ workers' = [workers EXCEPT ![w].left = @ - 1]
                 /\ UNCHANGED outcome
            ELSE /\ WriteTarget(wr, "full")
                 /\ AfterBody(w, [wr EXCEPT !.dl = TRUE])
                 /\ UNCHANGED bytes
    /\ UNCHANGED <<workerFrame, files, queue, alias, recvCnt, notFound, succCnt, skipCnt>>

\* create_dirs(symlink_path)?; _ = remove_file(&symlink_path).await
\* The result of remove_file is discarded.
WorkerLinkRemove(w) ==
    /\ workers[w].pc = "link_rm"
    /\ LET wr == workers[w]
       IN \E dirsOk \in BOOLEAN, rmOk \in BOOLEAN :
            IF ~dirsOk
            THEN /\ Return(w, wr, "err")
                 /\ UNCHANGED alias
            ELSE /\ alias' = IF rmOk THEN [alias EXCEPT ![wr.task.id] = NoStr] ELSE alias
                 /\ workers' = [workers EXCEPT ![w].pc = "link_new"]
                 /\ UNCHANGED outcome
    /\ UNCHANGED <<workerFrame, files, bytes, queue, stagCat, archive, recvCnt, notFound, succCnt, skipCnt>>

\* symlink(&rel_primary_path, symlink_path).await?: fails when the path
\* exists.
WorkerLinkNew(w) ==
    /\ workers[w].pc = "link_new"
    /\ LET wr == workers[w]
       IN \E ok \in BOOLEAN :
            IF ok /\ alias[wr.task.id] = NoStr
            THEN /\ alias' = [alias EXCEPT ![wr.task.id] = wr.task.version]
                 /\ Return(w, wr, OkOf(wr.dl))
            ELSE /\ Return(w, wr, "err")
                 /\ UNCHANGED alias
    /\ UNCHANGED <<workerFrame, files, bytes, queue, stagCat, archive, recvCnt, notFound, succCnt, skipCnt>>

\* A worker task that ends on the first failed download, without counting
\* it.
WorkerTrack_Abort(w) ==
    /\ workers[w].pc = "track"
    /\ LET wr == workers[w]
       IN IF wr.res = "err"
          THEN /\ workers' = [workers EXCEPT ![w] = IdleWorker("exited")]
               /\ UNCHANGED <<files, succCnt, skipCnt>>
          ELSE /\ files' = IF wr.res = "ok_true" THEN IncSuccess(files, 1) ELSE IncSkipped(files, 1)
               /\ succCnt' = [succCnt EXCEPT ![wr.task.n] = @ + (IF wr.res = "ok_true" THEN 1 ELSE 0)]
               /\ skipCnt' = [skipCnt EXCEPT ![wr.task.n] = @ + (IF wr.res = "ok_true" THEN 0 ELSE 1)]
               /\ workers' = [workers EXCEPT ![w] = NewWorker]
    /\ UNCHANGED <<envVars, updVars, searchVars, orchVars, step, totalSteps, stepName, totalBytes, bytes, queue, fsVars,
                   enqCnt, recvCnt, notFound, outcome, phasesOk, promoted, live0, seen, succeeded>>

\* A worker that puts a task whose download failed back on the channel
\* instead of counting it.
WorkerTrack_Requeue(w) ==
    /\ workers[w].pc = "track"
    /\ LET wr == workers[w]
       IN IF wr.res = "err"
          THEN /\ queue' = Append(queue, wr.task)
               /\ enqCnt' = [enqCnt EXCEPT ![wr.task.n] = @ + 1]
               /\ UNCHANGED <<files, succCnt, skipCnt>>
          ELSE /\ files' = IF wr.res = "ok_true" THEN IncSuccess(files, 1) ELSE IncSkipped(files, 1)
               /\ succCnt' = [succCnt EXCEPT ![wr.task.n] = @ + (IF wr.res = "ok_true" THEN 1 ELSE 0)]
               /\ skipCnt' = [skipCnt EXCEPT ![wr.task.n] = @ + (IF wr.res = "ok_true" THEN 0 ELSE 1)]
               /\ UNCHANGED <<queue, enqCnt>>
    /\ workers' = [workers EXCEPT ![w] = NewWorker]
    /\ UNCHANGED <<envVars, updVars, searchVars, orchVars, step, totalSteps, stepName, totalBytes, bytes, fsVars,
                   recvCnt, notFound, outcome, phasesOk, promoted, live0, seen, succeeded>>

\* A download_and_track that counts only Ok results: an Err is dropped.
WorkerTrack_ErrUncounted(w) ==
    /\ workers[w].pc = "track"
    /\ LET wr == workers[w]
       IN IF wr.res = "ok_true"
          THEN /\ files' = IncSuccess(files, 1)
               /\ succCnt' = [succCnt EXCEPT ![wr.task.n] = @ + 1]
               /\ UNCHANGED skipCnt
          ELSE IF wr.res = "ok_false"
          THEN /\ files' = IncSkipped(files, 1)
               /\ skipCnt' = [skipCnt EXCEPT ![wr.task.n] = @ + 1]
               /\ UNCHANGED succCnt
          ELSE UNCHANGED <<files, succCnt, skipCnt>>
    /\ workers' = [workers EXCEPT ![w] = NewWorker]
    /\ UNCHANGED <<workerFrame, bytes, queue, stagCat, archive, alias, recvCnt, notFound, outcome>>

\* download_and_track's match on the result; then the loop takes the next
\* task.
WorkerTrack(w) ==
    /\ workers[w].pc = "track"
    /\ LET wr == workers[w]
       IN IF wr.res = "ok_true"
          THEN /\ files' = IncSuccess(files, 1)
               /\ succCnt' = [succCnt EXCEPT ![wr.task.n] = @ + 1]
               /\ UNCHANGED skipCnt
          ELSE /\ files' = IncSkipped(files, 1)
               /\ skipCnt' = [skipCnt EXCEPT ![wr.task.n] = @ + 1]
               /\ UNCHANGED succCnt
    /\ workers' = [workers EXCEPT ![w] = NewWorker]
    /\ UNCHANGED <<workerFrame, bytes, queue, stagCat, archive, alias, recvCnt, notFound, outcome>>

\* ------------------------------------------ phase 2: download_extensions
\* File::open, metadata, read_to_end, serde_json::from_slice.  The document
\* parses when it is the complete body of a success response.
CatalogParses(f) == f.st = "full" /\ f.body = "ok"

P2Read ==
    /\ pc = "p2_read"
    /\ \E ok \in BOOLEAN :
         IF ok /\ stagCat.st # "absent" /\ CatalogParses(stagCat)
         THEN /\ extList' = upstream
              /\ recIdx' = 1
              /\ pc' = "p2_rec"
              /\ UNCHANGED errCtx
         ELSE /\ Fail(Phase2Ctx)
              /\ UNCHANGED <<extList, recIdx>>
    /\ UNCHANGED <<envVars, updVars, searchVars, curTask, nextN, acc, nsPos, progVars, poolVars, fsVars, histVars>>

\* A loop that passes over a record without a string id or version
\* instead of bailing.
P2Record_SkipInvalid ==
    /\ pc = "p2_rec"
    /\ IF recIdx > Len(extList)
       THEN /\ pc' = "w_total"
            /\ UNCHANGED <<errCtx, curTask, nextN, recIdx>>
       ELSE IF extList[recIdx].id = NoStr \/ extList[recIdx].version = NoStr
       THEN /\ recIdx' = recIdx + 1
            /\ UNCHANGED <<pc, errCtx, curTask, nextN>>
       ELSE /\ curTask' = Download(nextN, "arch", extList[recIdx].id, extList[recIdx].version, FALSE)
            /\ nextN' = nextN + 1
            /\ pc' = "q_inc"
            /\ UNCHANGED <<errCtx, recIdx>>
    /\ UNCHANGED <<envVars, updVars, searchVars, extList, acc, nsPos, progVars, poolVars, fsVars, histVars>>

\* One round of `for extension in &extension_list.data`, up to the queue()
\* call; after the last record, on to wait_for_completion.
P2Record ==
    /\ pc = "p2_rec"
    /\ IF recIdx > Len(extList)
       THEN /\ pc' = "w_total"
            /\ UNCHANGED <<errCtx, curTask, nextN>>
       ELSE IF extList[recIdx].id = NoStr \/ extList[recIdx].version = NoStr
       THEN /\ Fail(Phase2Ctx)
            /\ UNCHANGED <<curTask, nextN>>
       ELSE /\ curTask' = Download(nextN, "arch", extList[recIdx].id, extList[recIdx].version, FALSE)
            /\ nextN' = nextN + 1
            /\ pc' = "q_inc"
            /\ UNCHANGED errCtx
    /\ UNCHANGED <<envVars, updVars, searchVars, extList, recIdx, acc, nsPos, progVars, poolVars, fsVars, histVars>>

\* -------------------------------------------- phase 3: generate_index
\* Indexer::init: create_dir_all({output}/.tmp/idx)?, then
\* Index::create_in_dir, which refuses a directory that holds an index.
P3Init ==
    /\ pc = "p3_init"
    /\ \E ok \in BOOLEAN :
         IF ok /\ stagIdx.st = "absent"
         THEN /\ stagIdx' = [st |-> "created", run |-> ThisRun, docs |-> 0]
              /\ pc' = "p3_total"
              /\ UNCHANGED errCtx
         ELSE /\ Fail(Phase3Ctx)
              /\ UNCHANGED stagIdx
    /\ UNCHANGED <<envVars, updVars, searchVars, extList, recIdx, curTask, nextN, acc, nsPos, progVars, poolVars,
                   tmpDir, stagCat, liveCat, liveIdx, archive, alias, histVars>>

\* progress.files.inc_total(ext_list.data.len())
P3IncTotal ==
    /\ pc = "p3_total"
    /\ files' = IncTotal(files, Len(extList))
    /\ pc' = "p3_writer"
    /\ UNCHANGED <<envVars, updVars, searchVars, errCtx, extList, recIdx, curTask, nextN, acc, nsPos,
                   step, totalSteps, stepName, bytes, totalBytes, poolVars, fsVars, histVars>>

\* Indexer::index: self.index.writer(15_000_000)?
P3Writer ==
    /\ pc = "p3_writer"
    /\ \E ok \in BOOLEAN :
         IF ok
         THEN /\ recIdx' = 1
              /\ pc' = "p3_doc"
              /\ UNCHANGED errCtx
         ELSE /\ Fail(Phase3Ctx)
              /\ UNCHANGED recIdx
    /\ UNCHANGED <<envVars, updVars, searchVars, extList, curTask, nextN, acc, nsPos, progVars, poolVars, fsVars, histVars>>

\* An index() that commits after every document.
P3Doc_CommitsEach ==
    /\ pc = "p3_doc"
    /\ IF recIdx > Len(extList)
       THEN /\ pc' = "p3_commit"
            /\ UNCHANGED <<errCtx, recIdx, files, stagIdx>>
       ELSE \E ok \in BOOLEAN :
              IF ok
              THEN /\ files' = IncSuccess(files, 1)
                   /\ stagIdx' = [stagIdx EXCEPT !.st = "committed", !.docs = recIdx]
                   /\ recIdx' = recIdx + 1
                   /\ UNCHANGED <<pc, errCtx>>
              ELSE /\ Fail(Phase3Ctx)
                   /\ UNCHANGED <<recIdx, files, stagIdx>>
    /\ UNCHANGED <<envVars, updVars, searchVars, extList, curTask, nextN, acc, nsPos,
                   step, totalSteps, stepName, bytes, totalBytes, poolVars,
                   tmpDir, stagCat, liveCat, liveIdx, archive, alias, histVars>>

\* One round of `for mut package_meta in data.data`: from_json_object?,
\* add_document?, progress.files.inc_success(1).
P3Doc ==
    /\ pc = "p3_doc"
    /\ IF recIdx > Len(extList)
       THEN /\ pc' = "p3_commit"
            /\ UNCHANGED <<errCtx, recIdx, files>>
       ELSE \E ok \in BOOLEAN :
              IF ok
              THEN /\ files' = IncSuccess(files, 1)
                   /\ recIdx' = recIdx + 1
                   /\ UNCHANGED <<pc, errCtx>>
              ELSE /\ Fail(Phase3Ctx)
                   /\ UNCHANGED <<recIdx, files>>
    /\ UNCHANGED <<envVars, updVars, searchVars, extList, curTask, nextN, acc, nsPos,
                   step, totalSteps, stepName, bytes, totalBytes, poolVars, fsVars, histVars>>

\* A mirror() that goes on to promote_tmp whatever generate_index returned.
P3Commit_Unchecked ==
    /\ pc = "p3_commit"
    /\ \E ok \in BOOLEAN :
         IF ok
         THEN /\ stagIdx' = [stagIdx EXCEPT !.st = "committed", !.docs = Len(extList)]
              /\ phasesOk' = phasesOk \cup {step}
         ELSE UNCHANGED <<stagIdx, phasesOk>>
    /\ pc' = "pr_meta_check"
    /\ UNCHANGED <<envVars, updVars, searchVars, errCtx, extList, recIdx, curTask, nextN, acc, nsPos, progVars, poolVars,
                   tmpDir, stagCat, liveCat, liveIdx, archive, alias,
                   enqCnt, recvCnt, notFound, succCnt, skipCnt, outcome, promoted, live0, seen, succeeded>>

\* index_writer.commit()?; generate_index aborts its updater and returns Ok.
P3Commit ==
    /\ pc = "p3_commit"
    /\ \E ok \in BOOLEAN :
         IF ok
         THEN /\ stagIdx' = [stagIdx EXCEPT !.st = "committed", !.docs = Len(extList)]
              /\ phasesOk' = phasesOk \cup {step}
              /\ pc' = "pr_meta_check"
              /\ UNCHANGED errCtx
         ELSE /\ Fail(Phase3Ctx)
              /\ UNCHANGED <<stagIdx, phasesOk>>
    /\ UNCHANGED <<envVars, updVars, searchVars, extList, recIdx, curTask, nextN, acc, nsPos, progVars, poolVars,
                   tmpDir, stagCat, liveCat, liveIdx, archive, alias,
                   enqCnt, recvCnt, notFound, succCnt, skipCnt, outcome, promoted, live0, seen, succeeded>>

\* ------------------------------------------------------------ promote_tmp
PromoteCtx == "finishing up"

\* What a reader of the live root sees of an artifact: nothing, the artifact
\* staged by this run, or an older one.
TagOf(f, staged) ==
    IF f.st = "absent" THEN "absent" ELSE IF f = staged THEN "new" ELSE "old"

promoteFrame ==
    <<envVars, updVars, searchVars, extList, recIdx, curTask, nextN, acc, nsPos, progVars, poolVars,
      tmpDir, archive, alias, enqCnt, recvCnt, notFound, succCnt, skipCnt, outcome, phasesOk, live0>>

\* try_exists(&current_meta)?
PromoteMetaCheck ==
    /\ pc = "pr_meta_check"
    /\ promoted' = [entered |-> TRUE, cat |-> stagCat, idx |-> stagIdx]
    /\ seen' = seen \cup { <<TagOf(liveCat, stagCat), TagOf(liveIdx, stagIdx)>> }
    /\ \E ok \in BOOLEAN :
         IF ok
         THEN /\ pc' = IF liveCat.st # "absent" THEN "pr_meta_rm" ELSE "pr_meta_mv"
              /\ UNCHANGED errCtx
         ELSE Fail(PromoteCtx)
    /\ UNCHANGED <<promoteFrame, stagCat, stagIdx, liveCat, liveIdx, succeeded>>

\* remove_file(&current_meta)?
PromoteMetaRemove ==
    /\ pc = "pr_meta_rm"
    /\ \E ok \in BOOLEAN :
         IF ok
         THEN /\ liveCat' = AbsentFile
              /\ pc' = "pr_meta_mv"
              /\ UNCHANGED errCtx
         ELSE /\ Fail(PromoteCtx)
              /\ UNCHANGED liveCat
    /\ seen' = seen \cup { <<TagOf(liveCat', promoted.cat), TagOf(liveIdx, promoted.idx)>> }
    /\ UNCHANGED <<promoteFrame, stagCat, stagIdx, liveIdx, promoted, succeeded>>

\* rename(new_meta, current_meta)?
PromoteMetaRename ==
    /\ pc = "pr_meta_mv"
    /\ \E ok \in BOOLEAN :
         IF ok /\ stagCat.st # "absent"
         THEN /\ liveCat' = stagCat
              /\ stagCat' = AbsentFile
              /\ pc' = "pr_idx_check"
              /\ UNCHANGED errCtx
         ELSE /\ Fail(PromoteCtx)
              /\ UNCHANGED <<liveCat, stagCat>>
    /\ seen' = seen \cup { <<TagOf(liveCat', promoted.cat), TagOf(liveIdx, promoted.idx)>> }
    /\ UNCHANGED <<promoteFrame, stagIdx, liveIdx, promoted, succeeded>>

\* try_exists(&current_idx)?
PromoteIdxCheck ==
    /\ pc = "pr_idx_check"
    /\ \E ok \in BOOLEAN :
         IF ok
         THEN /\ pc' = IF liveIdx.st # "absent" THEN "pr_idx_rm" ELSE "pr_idx_mv"
              /\ UNCHANGED errCtx
         ELSE Fail(PromoteCtx)
    /\ UNCHANGED <<promoteFrame, stagCat, stagIdx, liveCat, liveIdx, promoted, seen, succeeded>>

\* A promotion that leaves the live index directory in place for the rename
\* to replace.
PromoteIdxRemove_Skipped ==
    /\ pc = "pr_idx_rm"
    /\ pc' = "pr_idx_mv"
    /\ seen' = seen \cup { <<TagOf(liveCat, promoted.cat), TagOf(liveIdx, promoted.idx)>> }
    /\ UNCHANGED <<promoteFrame, errCtx, stagCat, stagIdx, liveCat, liveIdx, promoted, succeeded>>

\* remove_dir_all(&current_idx)?
PromoteIdxRemove ==
    /\ pc = "pr_idx_rm"
    /\ \E ok \in BOOLEAN :
         IF ok
         THEN /\ liveIdx' = AbsentIdx
              /\ pc' = "pr_idx_mv"
              /\ UNCHANGED errCtx
         ELSE /\ Fail(PromoteCtx)
              /\ UNCHANGED liveIdx
    /\ seen' = seen \cup { <<TagOf(liveCat, promoted.cat), TagOf(liveIdx', promoted.idx)>> }
    /\ UNCHANGED <<promoteFrame, stagCat, stagIdx, liveCat, promoted, succeeded>>

\* A promotion that copies the staged index instead of moving it.
PromoteIdxRename_Copy ==
    /\ pc = "pr_idx_mv"
    /\ \E ok \in BOOLEAN :
         IF ok /\ stagIdx.st # "absent"
         THEN /\ liveIdx' = stagIdx
              /\ pc' = "completed"
              /\ succeeded' = succeeded + 1
              /\ UNCHANGED errCtx
         ELSE /\ Fail(PromoteCtx)
              /\ UNCHANGED <<liveIdx, succeeded>>
    /\ seen' = seen \cup { <<TagOf(liveCat, promoted.cat), TagOf(liveIdx', promoted.idx)>> }
    /\ UNCHANGED <<promoteFrame, stagCat, stagIdx, liveCat, promoted>>

\* rename(new_idx, current_idx)?; Ok(()); mirror() logs and returns Ok.
PromoteIdxRename ==
    /\ pc = "pr_idx_mv"
    /\ \E ok \in BOOLEAN :
         IF ok /\ stagIdx.st # "absent"
         THEN /\ liveIdx' = stagIdx
              /\ stagIdx' = AbsentIdx
              /\ pc' = "completed"
              /\ succeeded' = succeeded + 1
              /\ UNCHANGED errCtx
         ELSE /\ Fail(PromoteCtx)
              /\ UNCHANGED <<liveIdx, stagIdx, succeeded>>
    /\ seen' = seen \cup { <<TagOf(liveCat, promoted.cat), TagOf(liveIdx', promoted.idx)>> }
    /\ UNCHANGED <<promoteFrame, stagCat, liveCat, promoted>>

\* ------------------------------------------------------------------ main
\* mirror() has returned: after an error main calls exit(-1), otherwise main
\* ends and the runtime is dropped.  Every worker task still alive ends
\* where it is; what is on the channel is never received.
ProcessExit ==
    /\ pc \in {"completed", "failed"}
    /\ \E w \in Threads : workers[w].pc \notin {"unspawned", "exited", "killed"}
    /\ workers' = [w \in Threads |->
                     IF workers[w].pc \in {"unspawned", "exited"}
                     THEN workers[w] ELSE IdleWorker("killed")]
    /\ UNCHANGED <<envVars, updVars, searchVars, orchVars, progVars, queue, fsVars, histVars>>

\* ------------------------------------------------------- specification
Orchestrator ==
    \/ MirrorCtxInit
    \/ SetTotalSteps
    \/ NextStepName
    \/ ResetStore
    \/ NextStepAdd
    \/ P1Build
    \/ QueueIncTotal
    \/ QueueSend
    \/ WaitLoadTotal
    \/ WaitLoadSuccess
    \/ WaitLoadSkipped
    \/ WaitLoadFailed
    \/ WaitFinish
    \/ P2Read
    \/ P2Record
    \/ P3Init
    \/ P3IncTotal
    \/ P3Writer
    \/ P3Doc
    \/ P3Commit
    \/ PromoteMetaCheck
    \/ PromoteMetaRemove
    \/ PromoteMetaRename
    \/ PromoteIdxCheck
    \/ PromoteIdxRemove
    \/ PromoteIdxRename

Worker(w) ==
    \/ WorkerRecv(w)
    \/ WorkerExit(w)
    \/ WorkerCheck(w)
    \/ WorkerCreate(w)
    \/ WorkerGet(w)
    \/ WorkerRemove404(w)
    \/ WorkerChunk(w)
    \/ WorkerLinkRemove(w)
    \/ WorkerLinkNew(w)
    \/ WorkerTrack(w)

Next ==
    \/ Orchestrator
    \/ \E w \in Threads : Worker(w)
    \/ ProcessExit

Spec == Init /\ [][Next]_vars

\* The tokio runtime runs every task that is ready: mirror() goes on
\* whenever it can take a step, and so does every worker task; a worker's
\* request, body read or file operation ends (with a result or an error).
Fairness ==
    /\ WF_vars(Orchestrator)
    /\ \A w \in Threads : WF_vars(Worker(w))

\* A run with at least one worker, over the live root of an earlier
\* completed run.
InitFair ==
    /\ NoServer
    /\ numThreads \in 1 .. MaxThreads
    /\ upstream \in Catalogs
    /\ ProcessStart
    /\ tmpDir = FALSE
    /\ archive = [k \in ArchKeys |-> AbsentFile]
    /\ alias = [i \in Ids |-> NoStr]
    /\ stagCat = AbsentFile
    /\ stagIdx = AbsentIdx
    /\ liveCat = PriorCatalog(PriorRun)
    /\ liveIdx = PriorIdx(PriorRun, "committed")
    /\ succeeded = 1
    /\ live0 = LiveRoot
    /\ seen = {}

FairSpec == InitFair /\ [][Next]_vars /\ Fairness

\* ------------------------------------------------ a second run of mirror
\* A run over the output root that an earlier, completed run over the same
\* catalog left: phase 2 of the earlier run returned Ok whatever its tasks'
\* results were (download_and_track absorbs them).
\* The number of download workers of the second run is 1 .. RerunThreads.
RerunThreads == 1

ValidRecords == {r \in Records : r.id # NoStr /\ r.version # NoStr}
RerunCatalogs == {c \in Catalogs : c # <<>> /\ \A i \in 1 .. Len(c) : c[i] \in ValidRecords}
\* The archive paths of a catalog's records.
Listed(c) == {<<c[i].id, c[i].version>> : i \in 1 .. Len(c)}

\* How download_file ended for an archive path in the earlier run: Ok(true);
\* the NOT_FOUND branch; an error before File::create; an error between
\* File::create and the first chunk; an error in the symlink part.
FirstRunOutcomes == {"success", "not_found", "error_before_create", "error_after_create", "error_at_alias"}
\* What that leaves at the path.
LeftBy(o) ==
    IF o \in {"success", "error_at_alias"}
    THEN [st |-> "full", body |-> "ok", run |-> PriorRun, ino |-> 1]
    ELSE IF o = "error_after_create"
    THEN [st |-> "empty", body |-> "-", run |-> PriorRun, ino |-> 1]
    ELSE AbsentFile

InitRerun ==
    /\ NoServer
    /\ numThreads \in 1 .. RerunThreads
    /\ upstream \in RerunCatalogs
    /\ ProcessStart
    /\ tmpDir = FALSE
    /\ stagCat = AbsentFile
    /\ stagIdx = AbsentIdx
    /\ liveCat = PriorCatalog(PriorRun)
    /\ liveIdx = PriorIdx(PriorRun, "committed")
    /\ succeeded = 1
    /\ \E o \in [Listed(upstream) -> FirstRunOutcomes] :
         /\ archive = [k \in ArchKeys |-> IF k \in Listed(upstream) THEN LeftBy(o[k]) ELSE AbsentFile]
         \* the pointer is the one of a task that ended Ok(true), or it is
         \* missing: no task ended Ok(true), or one failed after remove_file
         /\ \E al \in [Ids -> Versions \cup {NoStr}] :
              /\ \A i \in Ids :
                    IF al[i] = NoStr
                    THEN \/ \A k \in Listed(upstream) : k[1] = i => o[k] # "success"
                         \/ \E k \in Listed(upstream) : k[1] = i /\ o[k] = "error_at_alias"
                    ELSE <<i, al[i]>> \in Listed(upstream) /\ o[<<i, al[i]>>] = "success"
              /\ alias = al
    /\ live0 = LiveRoot
    /\ seen = {}

SpecRerun == InitRerun /\ [][Next]_vars

\* --------------------------------------------- download_file on any Download
\* struct Download is public: its size is any Option<u64>, its
\* always_download either value.  One worker of a Downloader and one Download
\* that queue() has put on the channel, over any state of the target path
\* and of the alias pointer; the caller waits.
Sizes == {NoSize, 0, 1}
SizedDownload(n, kind, id, version, always, size) ==
    [Download(n, kind, id, version, always) EXCEPT !.size = size]
AnyDownloads ==
    {SizedDownload(1, "cat", "-", "-", x[1], x[2]) : x \in BOOLEAN \X Sizes}
    \cup {SizedDownload(1, "arch", x[1][1], x[1][2], x[2], x[3]) : x \in ArchKeys \X BOOLEAN \X Sizes}

InitDownload ==
    /\ numThreads = 1
    /\ upstream = <<>>
    /\ pc = "w_total"
    /\ errCtx = "-"
    /\ extList = <<>>
    /\ recIdx = 0
    /\ curTask = NoTask
    /\ nextN = 2
    /\ acc = 0
    /\ nsPos = 0
    /\ step = 1
    /\ totalSteps = InitialTotalSteps
    /\ stepName = ""
    /\ files = IncTotal(NewPart, 1)
    /\ bytes = NewPart
    /\ totalBytes = 0
    /\ \E dl \in AnyDownloads : queue = <<dl>>
    /\ workers = [w \in Threads |-> IF w = 1 THEN NewWorker ELSE NoWorker]
    /\ tmpDir = TRUE
    /\ stagCat \in {AbsentFile, PriorCatalog(PriorRun)}
    /\ stagIdx = AbsentIdx
    /\ liveCat = AbsentFile
    /\ liveIdx = AbsentIdx
    /\ archive \in [ArchKeys -> {AbsentFile, LeftBy("success")}]
    /\ alias \in [Ids -> Versions \cup {NoStr}]
    /\ enqCnt = [ZeroCnt EXCEPT ![1] = 1]
    /\ recvCnt = ZeroCnt
    /\ succCnt = ZeroCnt
    /\ skipCnt = ZeroCnt
    /\ outcome = NoOutcome
    /\ notFound = {}
    /\ phasesOk = {}
    /\ promoted = NotPromoted
    /\ succeeded = 0
    /\ live0 = LiveRoot
    /\ seen = {}
    /\ upd = NoUpdater
    /\ NoServer

NextDownload ==
    \E w \in Threads :
        \/ WorkerRecv(w)
        \/ WorkerCheck(w)
        \/ WorkerCreate(w)
        \/ WorkerGet(w)
        \/ WorkerRemove404(w)
        \/ WorkerChunk(w)
        \/ WorkerLinkRemove(w)
        \/ WorkerLinkNew(w)
        \/ WorkerTrack(w)

SpecDownload == InitDownload /\ [][NextDownload]_vars

\* ------------------------------------------- serve: the search handlers
\* Text is a sequence of characters.  The alphabet has two lower-case
\* letters, one upper-case letter, the list separator and white space.
Chars == {"a", "b", "A", ",", " "}
Texts == SeqsUpTo(Chars, MaxText)

\* Option<T>
None == <<>>
Some(v) == <<v>>

\* char::to_lowercase / str::to_lowercase
ToLowercase(t) == [i \in 1 .. Len(t) |-> IF t[i] = "A" THEN "a" ELSE t[i]]

\* str::trim: white space removed at both ends.
RECURSIVE TrimStart(_)
TrimStart(t) == IF t # <<>> /\ Head(t) = " " THEN TrimStart(Tail(t)) ELSE t
RECURSIVE TrimEnd(_)
TrimEnd(t) == IF t # <<>> /\ t[Len(t)] = " " THEN TrimEnd(SubSeq(t, 1, Len(t) - 1)) ELSE t
Trim(t) == TrimEnd(TrimStart(t))

\* str::split(','): the pieces between separators, empty pieces kept; a
\* text without separator is its own single piece.
RECURSIVE Split(_)
Split(t) ==
    LET commas == {i \in 1 .. Len(t) : t[i] = ","}
    IN  IF commas = {} THEN <<t>>
        ELSE LET i == CHOOSE j \in commas : \A k \in commas : j <= k
             IN  <<SubSeq(t, 1, i - 1)>> \o Split(SubSeq(t, i + 1, Len(t)))

\* The default tokenizer of a TEXT field: maximal runs of alphanumeric
\* characters, each lower-cased.
IsAlphanumeric(c) == c \notin {",", " "}
Words(t) ==
    {SubSeq(t, i, j) : <<i, j>> \in
        {x \in (1 .. Len(t)) \X (1 .. Len(t)) :
            /\ x[1] <= x[2]
            /\ \A k \in x[1] .. x[2] : IsAlphanumeric(t[k])
            /\ (x[1] = 1 \/ ~IsAlphanumeric(t[x[1] - 1]))
            /\ (x[2] = Len(t) \/ ~IsAlphanumeric(t[x[2] + 1]))}}
Tokens(t) == {ToLowercase(w) : w \in Words(t)}

\* The fields of an indexed document that the handlers query (the schema
\* of index.rs): id is STRING (one term, the raw text), name is TEXT
\* (its tokens), provides is STRING with one term per array element,
\* schema_version is an indexed i64.
SchemaVersions == 0 .. MaxSchemaVersion
Documents ==
    [id : {<<"a">>, <<"b">>},
     name : {<<"A", " ", "b">>, <<"b">>},
     provides : {{}, {<<"a">>}},
     schema_version : 1 .. MaxSchemaVersion - 1]
Indexes == SeqsUpTo(Documents, MaxDocs)

TermsOf(d, field) ==
    CASE field = "id" -> {d.id}
      [] field = "name" -> Tokens(d.name)
      [] field = "provides" -> d.provides

\* The queries the handlers build.
TermQuery(field, text) == [kind |-> "term", field |-> field, text |-> text]
Unbounded == [bound |-> "Unbounded", v |-> 0]
Included(v) == [bound |-> "Included", v |-> v]
RangeQuery(lower, upper) == [kind |-> "range", lower |-> lower, upper |-> upper]
BooleanQuery(clauses) == [kind |-> "bool", clauses |-> clauses]

\* Whether document d matches query q.  A BooleanQuery matches when every
\* Must clause matches and, if it has no Must clause, at least one Should
\* clause does.
RECURSIVE Matches(_, _)
Matches(q, d) ==
    CASE q.kind = "term" -> q.text \in TermsOf(d, q.field)
      [] q.kind = "range" ->
            /\ q.lower.bound = "Included" => q.lower.v <= d.schema_version
            /\ q.upper.bound = "Included" => d.schema_version <= q.upper.v
      [] q.kind = "bool" ->
            LET n == Len(q.clauses)
                must == {i \in 1 .. n : q.clauses[i][1] = "Must"}
                should == {i \in 1 .. n : q.clauses[i][1] = "Should"}
            IN  /\ \A i \in must : Matches(q.clauses[i][2], d)
                /\ must = {} => \E i \in should : Matches(q.clauses[i][2], d)

\* add_query_from_schema_version_range: both ends inclusive, the lower one
\* only for Some(min).
SchemaVersionRange_Exclusive(min_schema_version, max_schema_version) ==
    RangeQuery(IF min_schema_version = None THEN Unbounded
               ELSE Included(min_schema_version[1] + 1),
               Included(max_schema_version))

SchemaVersionRange(min_schema_version, max_schema_version) ==
    RangeQuery(IF min_schema_version = None THEN Unbounded
               ELSE Included(min_schema_version[1]),
               Included(max_schema_version))

AddQueryFromSchemaVersionRange(sub_queries, min_schema_version, max_schema_version) ==
    Append(sub_queries,
           <<"Must", BooleanQuery(<< <<"Must",
                SchemaVersionRange(min_schema_version, max_schema_version)>> >>)>>)

\* One Should TermQuery per piece of the comma-separated text, trimmed.
ShouldTerms(field, list) ==
    LET pieces == Split(list)
    IN  [i \in 1 .. Len(pieces) |-> <<"Should", TermQuery(field, Trim(pieces[i]))>>]

\* add_query_from_provides (split never returns an empty list)
AddQueryFromProvides(sub_queries, provides_filter) ==
    LET provides == ShouldTerms("provides", provides_filter)
    IN  IF provides # <<>>
        THEN Append(sub_queries,
                    <<"Must", BooleanQuery(<< <<"Must", BooleanQuery(provides)>> >>)>>)
        ELSE sub_queries

\* add_query_from_ids
AddQueryFromIds(sub_queries, ids) ==
    Append(sub_queries,
           <<"Must", BooleanQuery(<< <<"Must",
                BooleanQuery(ShouldTerms("id", ids))>> >>)>>)

\* add_query_from_filter: the name term is the filter as given, the id
\* term is the filter lower-cased.
AddQueryFromFilter(sub_queries, filter) ==
    Append(sub_queries,
           <<"Must", BooleanQuery(<< <<"Must", BooleanQuery(<<
                <<"Should", TermQuery("name", filter)>>,
                <<"Should", TermQuery("id", ToLowercase(filter))>> >>)>> >>)>>)

\* searcher.search(query, TopDocs::with_limit(1000)): the addresses of the
\* matching documents, at most the limit (which of them is decided by the
\* score, not modelled).
TopDocs(query) ==
    LET hits == {a \in 1 .. Len(docs) : Matches(query, docs[a])}
    IN  IF Cardinality(hits) <= TopDocsLimit THEN {hits}
        ELSE {h \in SUBSET hits : Cardinality(h) = TopDocsLimit}

\* The requests of the three routes (serve/extensions.rs).
Requests ==
    [kind : {"extensions"}, filter : {None} \cup {Some(v) : v \in SeqsUpTo(Chars, MaxFilter)},
     provides : {None} \cup {Some(v) : v \in Texts}, max_schema_version : SchemaVersions]
    \cup [kind : {"updates"}, ids : Texts,
          min_schema_version : SchemaVersions, max_schema_version : SchemaVersions]
    \cup [kind : {"versions"}, extension_id : Texts]

Respond(query) ==
    \E top_docs \in TopDocs(query) : response' = [st |-> "ok", data |-> top_docs]

\* ExtSearcher::get_extensions
GetExtensions ==
    /\ request.kind = "extensions"
    /\ response = NoResponse
    /\ LET q0 == <<>>
           q1 == IF request.filter # None
                 THEN AddQueryFromFilter(q0, request.filter[1]) ELSE q0
           q2 == IF request.provides # None
                 THEN AddQueryFromProvides(q1, request.provides[1]) ELSE q1
           q3 == AddQueryFromSchemaVersionRange(q2, None, request.max_schema_version)
       IN  Respond(BooleanQuery(q3))
    /\ UNCHANGED <<envVars, updVars, docs, request, orchVars, progVars, poolVars, fsVars, histVars>>

\* ExtSearcher::get_extension_updates
GetExtensionUpdates ==
    /\ request.kind = "updates"
    /\ response = NoResponse
    /\ LET q1 == AddQueryFromIds(<<>>, request.ids)
           q2 == AddQueryFromSchemaVersionRange(q1, Some(request.min_schema_version),
                                                request.max_schema_version)
       IN  Respond(BooleanQuery(q2))
    /\ UNCHANGED <<envVars, updVars, docs, request, orchVars, progVars, poolVars, fsVars, histVars>>

\* ExtSearcher::get_extension_versions
GetExtensionVersions ==
    /\ request.kind = "versions"
    /\ response = NoResponse
    /\ Respond(BooleanQuery(AddQueryFromIds(<<>>, request.extension_id)))
    /\ UNCHANGED <<envVars, updVars, docs, request, orchVars, progVars, poolVars, fsVars, histVars>>

\* The server over the index of a promoted output root, answering one
\* request.
InitSearch ==
    /\ numThreads = 0
    /\ upstream = <<>>
    /\ ProcessStart
    /\ tmpDir = FALSE
    /\ archive = [k \in ArchKeys |-> AbsentFile]
    /\ alias = [i \in Ids |-> NoStr]
    /\ stagCat = AbsentFile
    /\ stagIdx = AbsentIdx
    /\ liveCat = PriorCatalog(PriorRun)
    /\ docs \in Indexes
    /\ liveIdx = [st |-> "committed", run |-> PriorRun, docs |-> Len(docs)]
    /\ succeeded = 1
    /\ live0 = LiveRoot
    /\ seen = {}
    /\ request \in Requests
    /\ response = NoResponse

NextSearch ==
    \/ GetExtensions
    \/ GetExtensionUpdates
    \/ GetExtensionVersions

SpecSearch == InitSearch /\ [][NextSearch]_vars

\* ------------------------------------------------ the updater task
\* spawn_updater: loop { update_for_files; sleep(100ms) } on the runtime's
\* thread pool.  update_for_files has no await point, so updater.abort()
\* ends the task only at its sleep: an iteration that has begun runs to its
\* end, whatever mirror() does meanwhile.  Each phase function spawns its
\* own updater and aborts it before it returns Ok.
UpdaterAlive ==
    \/ step \in {1, 2} /\ pc \in {"q_inc", "q_send", "p2_rec", "w_finish"} \cup WaitPcs
    \/ step = 3 /\ pc \in {"p3_writer", "p3_doc", "p3_commit"}

\* An iteration begins and enters files.remaining().
UpdStart ==
    /\ UpdaterAlive
    /\ upd.pc \in {"none", "panicked"}
    /\ upd' = [pc |-> "total", acc |-> 0]
    /\ UNCHANGED <<envVars, searchVars, orchVars, progVars, poolVars, fsVars, histVars>>

\* self.total.load(..)
UpdLoadTotal ==
    /\ upd.pc = "total"
    /\ upd' = [pc |-> "success", acc |-> files.total]
    /\ UNCHANGED <<envVars, searchVars, orchVars, progVars, poolVars, fsVars, histVars>>

\* One subtraction of remaining(): `acc - load`.  A u64 subtraction that
\* goes below zero panics the task (overflow checks on) or wraps (off);
\* acc keeps the mathematical value, so a wrapped value shows as acc < 0.
UpdSubtract(loaded, next) ==
    /\ upd.pc \in {"success", "skipped", "failed"}
    /\ \E checks \in BOOLEAN :
         upd' = [pc |-> IF upd.acc - loaded < 0 /\ checks THEN "panicked" ELSE next,
                 acc |-> upd.acc - loaded]
    /\ UNCHANGED <<envVars, searchVars, orchVars, progVars, poolVars, fsVars, histVars>>

UpdLoadSuccess == upd.pc = "success" /\ UpdSubtract(files.success, "skipped")
UpdLoadSkipped == upd.pc = "skipped" /\ UpdSubtract(files.skipped, "failed")
UpdLoadFailed == upd.pc = "failed" /\ UpdSubtract(files.failed, "returned")

\* remaining() has returned upd.acc; the rest of the iteration and the sleep.
UpdSleep ==
    /\ upd.pc = "returned"
    /\ upd' = NoUpdater
    /\ UNCHANGED <<envVars, searchVars, orchVars, progVars, poolVars, fsVars, histVars>>

\* A run with one worker over the live root of an earlier completed run,
\* with the updater tasks.
InitUpdater ==
    /\ NoServer
    /\ numThreads = 1
    /\ upstream \in Catalogs
    /\ ProcessStart
    /\ tmpDir = FALSE
    /\ archive = [k \in ArchKeys |-> AbsentFile]
    /\ alias = [i \in Ids |-> NoStr]
    /\ stagCat = AbsentFile
    /\ stagIdx = AbsentIdx
    /\ liveCat = PriorCatalog(PriorRun)
    /\ liveIdx = PriorIdx(PriorRun, "committed")
    /\ succeeded = 1
    /\ live0 = LiveRoot
    /\ seen = {}

NextUpdater ==
    \/ Orchestrator
    \/ \E w \in Threads : Worker(w)
    \/ ProcessExit
    \/ UpdStart
    \/ UpdLoadTotal
    \/ UpdLoadSuccess
    \/ UpdLoadSkipped
    \/ UpdLoadFailed
    \/ UpdSleep

SpecUpdater == InitUpdater /\ [][NextUpdater]_vars

\* ------------------------------------------------ a run without workers
\* dl_threads = 0: build() spawns no task and drops the only receiver, so
\* the channel is closed from the start.  The steps mirror() can take.
InitNoWorkers ==
    /\ NoServer
    /\ numThreads = 0
    /\ upstream \in Catalogs
    /\ ProcessStart
    /\ tmpDir = FALSE
    /\ archive = [k \in ArchKeys |-> AbsentFile]
    /\ alias = [i \in Ids |-> NoStr]
    /\ \E prior \in PriorStates :
         /\ stagCat = IF prior \in {"stale_catalog", "stale_staging"} THEN PriorCatalog(StaleRun) ELSE AbsentFile
         /\ stagIdx = IF prior = "stale_staging" THEN PriorIdx(StaleRun, "created") ELSE AbsentIdx
         /\ liveCat = IF prior \in {"promoted", "stale_staging"} THEN PriorCatalog(PriorRun) ELSE AbsentFile
         /\ liveIdx = IF prior \in {"promoted", "stale_staging"} THEN PriorIdx(PriorRun, "committed") ELSE AbsentIdx
         /\ succeeded = IF prior \in {"promoted", "stale_staging"} THEN 1 ELSE 0
    /\ live0 = LiveRoot
    /\ seen = {}

NextNoWorkers ==
    \/ MirrorCtxInit
    \/ SetTotalSteps
    \/ NextStepName
    \/ ResetStore
    \/ NextStepAdd
    \/ P1Build
    \/ QueueIncTotal
    \/ QueueSend

\* mirror() is the only task; the runtime runs it whenever it can go on.
SpecNoWorkers == InitNoWorkers /\ [][NextNoWorkers]_vars /\ WF_vars(NextNoWorkers)

\* ------------------------------------------------------------------ claims
\* success + skipped + failed <= total for one counter series.
SeriesBounded(part) == part.success + part.skipped + part.failed <= part.total

\* C1: in every reachable state of a mirror run, success + skipped + failed
\* <= total holds for the file counter series and for the byte counter
\* series.  The statement of the claim; it does not hold: every Download has
\* size None, so bytes.total is never increased while each chunk increases
\* bytes.success, and reset() zeroes total before it zeroes success.
C1_CountersBounded == SeriesBounded(files) /\ SeriesBounded(bytes)

\* A chunk has been counted in a phase whose byte total is still zero.
C1_BytesOverTotal == bytes.success > bytes.total /\ pc # "ns_reset"

\* A send() that ends while a receiver is alive found room, has put exactly
\* its task at the back of the channel and has returned no error.
C2_LeavesSend ==
    (pc = "q_send" /\ ~NoReceiver /\ pc' # "q_send")
        => /\ Len(queue) < QueueCapacity
           /\ queue' = Append(queue, curTask)
           /\ pc' # "failed"
           /\ errCtx' = errCtx
\* While the channel is full and a receiver is alive, the producer stays in
\* send() and keeps its task.
C2_StaysInSend ==
    (pc = "q_send" /\ ~NoReceiver /\ Len(queue) = QueueCapacity)
        => (pc' = "q_send" /\ curTask' = curTask /\ errCtx' = errCtx)
\* C2: the channel never holds more than QueueCapacity tasks; a queue()
\* call made while it is full suspends the producer until a worker has taken
\* a task off and then enqueues the task; while a receiver is alive the task
\* is never dropped and send() never returns an error.
C2_QueueBounded ==
    [][ /\ Len(queue) <= QueueCapacity
        /\ Len(queue') <= QueueCapacity
        /\ C2_LeavesSend
        /\ C2_StaysInSend ]_vars

\* The producer is suspended in send() on a full channel, and the task it
\* holds is enqueued once a worker has taken one off.
C2_ProducerSuspended ==
    /\ pc = "q_send"
    /\ Len(queue) = QueueCapacity
    /\ ~NoReceiver
    /\ curTask.n = 3

\* File-series completion increments made for Download n.
Counted(n) == succCnt[n] + skipCnt[n]
\* The phase whose function queues Download n: the catalog Download is the
\* first one built, the archive Downloads follow.
PhaseOf(n) == IF n = 1 THEN 1 ELSE 2
\* The worker task is inside download_and_track.
Processing(w) == workers[w].pc \notin {"unspawned", "recv", "exited", "killed"}
\* mirror() has returned and no worker task is left.
ProcessOver == pc \in {"completed", "failed"} /\ NoReceiver

\* C3 as amended: a task accepted by queue() is never put on the channel a
\* second time, is received at most once and by at most one worker, and
\* yields at most one file-series increment, which is made only after it was
\* received; once wait_for_completion of its phase has returned it has been
\* received exactly once and has yielded exactly one increment.
C3_AtMostOnce ==
    /\ \A n \in TaskIds :
         /\ enqCnt[n] <= 1
         /\ recvCnt[n] <= enqCnt[n]
         /\ Counted(n) <= recvCnt[n]
         /\ Cardinality({ w \in Threads : workers[w].task.n = n }) <= 1
         /\ (enqCnt[n] = 1 /\ PhaseOf(n) \in phasesOk) => (recvCnt[n] = 1 /\ Counted(n) = 1)
    /\ \A i \in 1 .. Len(queue) : recvCnt[queue[i].n] = 0

\* An archive task whose download failed was received once and counted once
\* (as skipped) when wait_for_completion of phase 2 returned.
C3_FailedTaskCountedOnce ==
    /\ 2 \in phasesOk
    /\ \E n \in TaskIds :
         /\ PhaseOf(n) = 2
         /\ outcome[n] = "err"
         /\ recvCnt[n] = 1
         /\ skipCnt[n] = 1

\* C3 as stated: every task accepted by queue() is received exactly once and
\* yields exactly one completion increment.  It does not hold for a task
\* that is still on the channel, or in a worker's hands, when mirror()
\* returns with an error and the process ends.
C3_ExactlyOnce ==
    ProcessOver =>
        \A n \in TaskIds : enqCnt[n] = 1 => (recvCnt[n] = 1 /\ Counted(n) = 1)

\* wait_for_completion has returned in the current phase, or the phase has
\* no wait of its own (phase 3, promotion).
AfterWaitPcs ==
    {"w_finish", "ns_name", "ns_reset", "ns_add", "p2_read", "p3_init", "p3_total",
     "p3_writer", "p3_doc", "p3_commit", "pr_meta_check", "pr_meta_rm", "pr_meta_mv",
     "pr_idx_check", "pr_idx_rm", "pr_idx_mv", "completed"}

\* C4: wait_for_completion returns, and the next phase is entered, only when
\* the channel is empty, no worker is processing a task and every task
\* queued so far has been counted; phase s is entered only after phases
\* 1 .. s-1 returned Ok, so phase 2 follows the end of the catalog task and
\* phase 3 the end of every archive task.
C4_PhasesOrdered ==
    /\ pc \in AfterWaitPcs =>
         /\ queue = <<>>
         /\ \A w \in Threads : ~Processing(w)
         /\ \A n \in TaskIds : enqCnt[n] = 1 => Counted(n) = 1
    /\ \A s \in 1 .. 2 : step > s => s \in phasesOk
    /\ phasesOk \subseteq 1 .. step
    /\ step >= 2 => (enqCnt[1] = 1 /\ Counted(1) = 1)
    /\ step = 3 => \A n \in TaskIds : n < nextN => (enqCnt[n] = 1 /\ Counted(n) = 1)

\* next_step for phase 3 is about to be invoked after two archive tasks were
\* queued and processed by two workers.
C4_Phase3AfterArchives ==
    /\ pc = "ns_name"
    /\ step = 2
    /\ numThreads = 2
    /\ enqCnt[3] = 1

\* promote_tmp is executing.
PromotePcs ==
    {"pr_meta_check", "pr_meta_rm", "pr_meta_mv", "pr_idx_check", "pr_idx_rm", "pr_idx_mv"}
\* The run started on a live root that holds a catalog document and an index.
HadLive == live0[1].st # "absent" /\ live0[2].st # "absent"

\* C5: before promotion no file of the live root (catalog document, index
\* directory, archive tree, alias pointers) is created, modified or deleted.
\* The statement of the claim; it does not hold: phase 2 writes the archives
\* and the alias pointers straight into the live root.
C5_LiveRootUntouched ==
    (~promoted.entered /\ pc \notin {"completed", "failed"}) => LiveRoot = live0

\* During the wait of phase 2 an archive and its alias pointer, absent when
\* the run started, are in the live root.
C5_ArchiveInLiveRoot ==
    /\ step = 2
    /\ pc = "w_total"
    /\ live0[3][<<"a", "1">>].st = "absent"
    /\ archive[<<"a", "1">>].st = "full"
    /\ alias["a"] = "1"

\* What holds of the phases, the promotion and the live catalog document and
\* index directory in every state of a run.
C6_Inv ==
    /\ promoted.entered => phasesOk = {1, 2, 3}
    /\ pc \in (PromotePcs \cup {"completed"}) => phasesOk = {1, 2, 3}
    /\ ~promoted.entered => (liveCat = live0[1] /\ liveIdx = live0[2])
    /\ \A s \in 1 .. 3 :
         (pc = "failed" /\ errCtx = PhaseCtx(s)) =>
             /\ step = s
             /\ phasesOk = 1 .. (s - 1)
             /\ ~promoted.entered
    /\ pc = "failed" <=> errCtx # "-"
    /\ pc = "completed" => succeeded >= 1

\* C6: promote_tmp is entered only after phases 1, 2 and 3 all returned Ok;
\* when phase s returns an error no later phase has started (the phase index
\* is still s), promote_tmp was not entered, mirror() has returned that
\* error and stays returned, and the live catalog document and the live
\* index directory are what they were when the run started.
C6_PromotionOnlyAfterSuccess ==
    [][ /\ C6_Inv
        /\ C6_Inv'
        /\ pc = "failed" =>
              UNCHANGED <<pc, errCtx, step, phasesOk, promoted, liveCat, liveIdx, stagIdx>> ]_vars

\* Phase 2 has failed in a run that staged its own catalog document over a
\* live root of an earlier run.
C6_Phase2FailedOverLive ==
    /\ pc = "failed"
    /\ errCtx = Phase2Ctx
    /\ HadLive
    /\ stagCat.run = ThisRun

LiveWorkers == { w \in Threads : workers[w].pc \notin {"unspawned", "exited", "killed"} }

\* The failed counter is never increased, a failed task has no success
\* increment and at most one skipped increment, and a running mirror() has
\* dl_threads live workers.
C10_Inv ==
    /\ files.failed = 0
    /\ \A n \in TaskIds : outcome[n] = "err" => (succCnt[n] = 0 /\ skipCnt[n] <= 1)
    /\ pc \notin {"start", "completed", "failed"} => Cardinality(LiveWorkers) = numThreads

\* The step in which download_file returns Err leaves the orchestrator and
\* the file series alone; the next step of that worker is the skipped
\* increment, back into recv(), unless the process ends first.
C10_Step ==
    /\ \A n \in TaskIds :
         (outcome[n] # "err" /\ outcome'[n] = "err") =>
             UNCHANGED <<pc, errCtx, files>>
    /\ \A w \in Threads :
         (workers[w].pc = "track" /\ workers[w].res = "err" /\ workers'[w] # workers[w]) =>
             \/ /\ files' = IncSkipped(files, 1)
                /\ skipCnt'[workers[w].task.n] = skipCnt[workers[w].task.n] + 1
                /\ workers'[w] = NewWorker
                /\ UNCHANGED <<pc, errCtx, succCnt>>
             \/ /\ pc \in {"completed", "failed"}
                /\ workers'[w].pc = "killed"

\* C10: an error of download_file changes nothing but the skipped counter
\* of the file series, by one: success and failed stay, the orchestrator's
\* position and error stay, the worker is back in recv(); and while mirror()
\* runs, the number of live worker tasks is dl_threads.
C10_ErrorsAbsorbed == [][C10_Inv /\ C10_Inv' /\ C10_Step]_vars

\* The only worker has counted a failed archive download as skipped and is
\* processing the next task, while mirror() is still running.
C10_WorkerGoesOn ==
    /\ numThreads = 1
    /\ pc \notin {"completed", "failed"}
    /\ outcome[2] = "err"
    /\ skipCnt[2] = 1
    /\ succCnt[2] = 0
    /\ workers[1].task.n = 3

\* The file at download.primary_target_path after the step.
TargetAfter(t) == IF t.kind = "cat" THEN stagCat' ELSE archive'[<<t.id, t.version>>]

\* A task whose GET was answered with NOT_FOUND is never counted as success,
\* is counted at most once as skipped and exactly once when its phase has
\* returned Ok, was put on the channel once and received once.
C11_Inv ==
    \A n \in notFound :
        /\ enqCnt[n] = 1
        /\ recvCnt[n] = 1
        /\ succCnt[n] = 0
        /\ skipCnt[n] <= 1
        /\ outcome[n] \in {"-", "err"}
        /\ PhaseOf(n) \in phasesOk => skipCnt[n] = 1

\* The steps of a worker on a task answered with NOT_FOUND: the removal can
\* succeed whenever the file is there; after it the path is gone, or
\* remove_file failed and the file is as it was; download_file returns an
\* error; the alias pointer and the channel are not touched.
C11_Step ==
    \A w \in Threads :
        LET t == workers[w].task
        IN /\ (workers[w].pc = "rm404" /\ TargetOf(t).st # "absent") =>
                ENABLED (WorkerRemove404(w) /\ TargetAfter(workers[w].task).st = "absent")
           /\ (workers[w].pc = "rm404" /\ workers'[w].pc = "track") =>
                /\ TargetAfter(t).st = "absent" \/ TargetAfter(t) = TargetOf(t)
                /\ outcome'[t.n] = "err"
                /\ UNCHANGED <<alias, queue, enqCnt, files>>
           /\ (t.n \in notFound /\ workers[w].pc = "track" /\ workers'[w].pc = "recv") =>
                /\ files' = IncSkipped(files, 1)
                /\ UNCHANGED <<alias, queue, enqCnt, stagCat, archive>>

C12_SkipsExistingTargets ==
    [][\A w \in Threads :
         LET t == workers[w].task
         IN t.kind = "arch" =>
              /\ (workers[w].pc = "check" /\ TargetOf(t).st # "absent") =>
                   ENABLED (WorkerCheck(w) /\ workers'[w].pc = "track" /\ workers'[w].res = "ok_false")
              /\ (workers[w].pc = "check" /\ TargetOf(t).st = "absent"
                    /\ workers'[w].pc \notin {"check", "killed"}) =>
                   workers'[w].pc = "create"
              /\ (workers[w].pc = "create" /\ workers'[w].pc \notin {"create", "killed"}) =>
                   \/ workers'[w].pc = "get"
                   \/ workers'[w].pc = "track" /\ workers'[w].res = "err"]_vars

\* Phase 2 of the second run has returned Ok and every archive task was
\* skipped because its target was there.
C12_SecondRunAllSkipped ==
    /\ 2 \in phasesOk
    /\ notFound = {}
    /\ \E n \in TaskIds : PhaseOf(n) = 2 /\ enqCnt[n] = 1
    /\ \A n \in TaskIds : (PhaseOf(n) = 2 /\ enqCnt[n] = 1) => outcome[n] = "ok_false"
    /\ \A k \in ArchKeys : archive[k].run # ThisRun

\* C12 as stated: in the second run no archive task issues an HTTP GET.
C12_NoRequestInSecondRun ==
    \A w \in Threads : ~(workers[w].task.kind = "arch" /\ workers[w].pc = "get")

C14_AliasAfterOk ==
    [][\A w \in Threads :
         LET t == workers[w].task
         IN (/\ HasSymlink(t)
             /\ workers[w].pc # "track"
             /\ workers'[w].pc = "track"
             /\ workers'[w].res \in {"ok_true", "ok_false"}) =>
            alias'[t.id] = t.version]_vars

\* A task was skipped because its archive was there, download_file
\* returned Ok(false), and the alias pointer of its id is missing or
\* references another version's archive.
C14_SkippedWithoutAlias ==
    \E w \in Threads :
        /\ workers[w].pc = "track"
        /\ workers[w].res = "ok_false"
        /\ HasSymlink(workers[w].task)
        /\ TargetOf(workers[w].task).st = "full"
        /\ TargetOf(workers[w].task).run = PriorRun
        /\ alias[workers[w].task.id] # workers[w].task.version

\* The archive Downloads of id i for which download_file returned Ok(true);
\* Download n is built from record n - 1 of the catalog.
FetchedOf(i) ==
    {n \in 2 .. Len(extList) + 1 : extList[n - 1].id = i /\ outcome[n] = "ok_true"}
\* The version of the record listed last for id i.
LastListed(i) ==
    LET idx == {k \in 1 .. Len(extList) : extList[k].id = i}
    IN extList[CHOOSE k \in idx : \A j \in idx : j <= k].version

\* C15: once phase 2 has returned Ok, for every id of which several
\* versions were fetched in this run the alias pointer references the
\* archive of the record listed last for that id.
C15_AliasIsLastListed ==
    2 \in phasesOk =>
        \A i \in Ids :
            Cardinality({extList[n - 1].version : n \in FetchedOf(i)}) >= 2 =>
                alias[i] = LastListed(i)

\* Phase 2 has returned Ok, both versions of an id were fetched, and the
\* alias pointer references the archive of the record listed first.
C15_AliasIsFirstListed ==
    /\ 2 \in phasesOk
    /\ Len(extList) = 2
    /\ extList[1].id = extList[2].id
    /\ extList[1].version # extList[2].version
    /\ FetchedOf(extList[1].id) = {2, 3}
    /\ alias[extList[1].id] = extList[1].version

\* The positions in the parsed catalog of the records without a string id
\* or without a string version.
InvalidAt == {k \in 1 .. Len(extList) : extList[k].id = NoStr \/ extList[k].version = NoStr}
FirstInvalid == CHOOSE k \in InvalidAt : \A j \in InvalidAt : k <= j

\* When the catalog read in phase 2 holds an invalid record: the loop never
\* passes the first one, no Download is built or put on the channel for it
\* or for any record after it, phase 2 never returns Ok, phase 3 and
\* promote_tmp are never entered, the run never completes, and when
\* mirror() has returned it returned the error of phase 2.
C16_Inv ==
    InvalidAt # {} =>
        /\ recIdx <= FirstInvalid
        /\ nextN <= FirstInvalid + 1
        /\ \A n \in TaskIds : n > FirstInvalid => enqCnt[n] = 0
        /\ step <= 2
        /\ phasesOk \subseteq {1}
        /\ ~promoted.entered
        /\ pc \notin PromotePcs \cup {"p3_init", "p3_total", "p3_writer", "p3_doc", "p3_commit", "completed"}
        /\ pc = "failed" => errCtx = Phase2Ctx

\* C16: a catalog record without a string id or without a string version
\* makes the run fail at whatever position it is: the step of the loop that
\* meets it makes mirror() return the error, no task is enqueued for it or
\* after it, and phase 3 and promotion are never executed.
C16_InvalidRecordFailsRun ==
    [][/\ C16_Inv
       /\ C16_Inv'
       /\ (pc = "p2_rec" /\ recIdx \in InvalidAt /\ pc' # pc) =>
            (pc' = "failed" /\ errCtx' = Phase2Ctx /\ UNCHANGED <<queue, enqCnt, nextN>>)]_vars

\* mirror() has returned the error of phase 2 at the second record of a
\* catalog whose first record was valid and was enqueued.
C16_FailedAtSecondRecord ==
    /\ pc = "failed"
    /\ errCtx = Phase2Ctx
    /\ InvalidAt = {2}
    /\ recIdx = 2
    /\ enqCnt[2] = 1
    /\ enqCnt[3] = 0

\* C17: under fairness a producer suspended in queue() on a full channel
\* resumes, every wait_for_completion call observes remaining() = 0 on the
\* file series and leaves its loop, and every run of mirror() ends, either
\* completed or failed.
C17_RunTerminates ==
    /\ (pc = "q_send" /\ Len(queue) = QueueCapacity /\ ~NoReceiver) ~> (pc # "q_send")
    /\ (pc \in WaitPcs) ~> (pc = "w_finish" /\ acc = 0)
    /\ <>(pc \in {"completed", "failed"})

\* wait_for_completion is polling in phase 2 while two tasks are queued or
\* in work and none is counted yet.
C17_WaitingOnTwoTasks ==
    /\ pc \in WaitPcs
    /\ step = 2
    /\ files.total = 2
    /\ files.success + files.skipped = 0
    /\ \E w \in Threads : Processing(w)
    /\ queue # <<>>

\* No counter of series q is below its value in series p.
NotBelow(p, q) ==
    /\ q.total >= p.total
    /\ q.success >= p.success
    /\ q.skipped >= p.skipped
    /\ q.failed >= p.failed

\* The step index is 0 before the first next_step call and 1, 2 or 3 after
\* it, never above the total step count; each phase's function runs under
\* its own index.
C18_Inv ==
    /\ step \in 0 .. MirrorTotalSteps
    /\ step <= totalSteps
    /\ pc \in {"p1_build"} => step = 1
    /\ pc \in {"p2_read", "p2_rec"} => step = 2
    /\ pc \in {"p3_init", "p3_total", "p3_writer", "p3_doc", "p3_commit"} \cup PromotePcs
         \cup {"completed"} => step = 3

\* C18: outside ProgressPart::reset no step lowers a counter of the file
\* series or of the byte series; inside next_step the counters are changed
\* by reset's stores only; the step in which next_step returns leaves all
\* eight counters 0 and the step index greater by exactly 1; the index
\* takes the values 1, 2, 3 and never exceeds the total step count.
C18_CountersAndStepIndex ==
    [][/\ C18_Inv
       /\ C18_Inv'
       /\ pc # "ns_reset" => (NotBelow(files, files') /\ NotBelow(bytes, bytes'))
       /\ (pc = "ns_reset" /\ <<files, bytes>>' # <<files, bytes>>) => nsPos' = nsPos + 1
       /\ (pc = "ns_add" /\ pc' # pc) =>
            /\ step' = step + 1
            /\ files' = NewPart
            /\ bytes' = NewPart
       /\ step' # step => pc = "ns_add"]_vars

\* The third next_step call has just returned: the index is 3 and all
\* counters are 0, after phases in which files were counted as success and
\* as skipped and bytes were counted.
C18_ThirdStepEntered ==
    /\ pc = "p3_init"
    /\ step = 3
    /\ files = NewPart
    /\ bytes = NewPart
    /\ totalBytes > 0
    /\ \E n \in TaskIds : skipCnt[n] = 1
    /\ \E n \in TaskIds : succCnt[n] = 1

\* An index directory made by this run holds no committed document, or
\* one committed document per catalog record; a run that failed in phase 3
\* has committed nothing and has not entered promote_tmp; the index
\* promote_tmp finds in staging is this run's, committed, with all documents.
C19_Inv ==
    /\ \A idx \in {stagIdx, liveIdx} :
         idx.run = ThisRun =>
            \/ idx.st = "created" /\ idx.docs = 0
            \/ idx.st = "committed" /\ idx.docs = Len(extList) /\ 3 \in phasesOk
    /\ (pc = "failed" /\ errCtx = Phase3Ctx) =>
         /\ ~(stagIdx.run = ThisRun /\ stagIdx.st = "committed")
         /\ liveIdx.run # ThisRun
         /\ 3 \notin phasesOk
         /\ ~promoted.entered
    /\ pc \in PromotePcs \cup {"completed"} => 3 \in phasesOk
    /\ promoted.entered =>
         promoted.idx = [st |-> "committed", run |-> ThisRun, docs |-> Len(extList)]

\* C19: index() is all-or-nothing.  The staging index passes from holding
\* no committed document to holding all of them in one step, the commit,
\* taken after every catalog record was added as a document; an error of
\* the writer, of a document or of the commit leaves nothing committed and
\* makes mirror() return before promote_tmp.
C19_IndexAllOrNothing ==
    [][/\ C19_Inv
       /\ C19_Inv'
       /\ (stagIdx.run = ThisRun /\ stagIdx' # stagIdx /\ pc \notin PromotePcs) =>
            /\ pc = "p3_commit"
            /\ recIdx = Len(extList) + 1
            /\ files.success = Len(extList)
            /\ stagIdx.st = "created"
            /\ stagIdx'.st = "committed"
            /\ stagIdx'.docs = Len(extList)
       /\ (pc \in {"p3_writer", "p3_doc", "p3_commit"} /\ pc' = "failed") =>
            (errCtx' = Phase3Ctx /\ UNCHANGED <<stagIdx, liveIdx, liveCat>>)]_vars

\* index() failed at the second of two records: one document was added,
\* none is committed, and mirror() has returned the error of phase 3.
C19_FailedAfterOneDocument ==
    /\ pc = "failed"
    /\ errCtx = Phase3Ctx
    /\ Len(extList) = 2
    /\ recIdx = 2
    /\ files.success = 1
    /\ stagIdx = [st |-> "created", run |-> ThisRun, docs |-> 0]

\* C20: a run started over the staging leftovers of a failed run can
\* complete: whenever it reaches Indexer::init, init can return Ok (it
\* creates the staging index directory or replaces the one that is there).
C20_InitCanSucceed ==
    pc = "p3_init" => ENABLED (P3Init /\ pc' = "p3_total")

\* A run over the leftovers of a failed run has rewritten the staging
\* catalog document, finished phases 1 and 2, and failed in phase 3 with
\* the earlier run's staging index directory still in place.
C20_FailedOnStaleIndex ==
    /\ pc = "failed"
    /\ errCtx = Phase3Ctx
    /\ phasesOk = {1, 2}
    /\ stagCat.run = ThisRun
    /\ stagIdx.st # "absent"
    /\ stagIdx.run = StaleRun

\* ---- C21 ------------------------------------------------------------
\* The handler of the route has returned Ok(data).
C21_Answered(kind) == request.kind = kind /\ response.st = "ok"

\* Document d provides at least one capability of the comma-separated list.
C21_ProvidesOneOf(d, list) ==
    \E i \in 1 .. Len(Split(list)) : Trim(Split(list)[i]) \in d.provides

\* The browse condition for document d whose name has the tokens nameTokens.
C21_BrowseMatch(d, nameTokens) ==
    /\ d.schema_version <= request.max_schema_version
    /\ request.filter # None =>
          \/ request.filter[1] \in nameTokens
          \/ ToLowercase(request.filter[1]) = d.id
    /\ request.provides # None => C21_ProvidesOneOf(d, request.provides[1])

C21_BrowseReturnsTermMatches ==
    C21_Answered("extensions") =>
        response.data = {a \in 1 .. Len(docs) : C21_BrowseMatch(docs[a], Tokens(docs[a].name))}

C22_ListedIds(list) == {Trim(Split(list)[i]) : i \in 1 .. Len(Split(list))}

\* C22: the update-check query returns exactly the documents whose id is
\* one of the comma-separated ids and whose schema_version lies in the
\* closed range [min_schema_version, max_schema_version]; a document with
\* another id or a schema_version outside the range is never returned.
C22_UpdatesReturnsMatches ==
    C21_Answered("updates") =>
        response.data =
            {a \in 1 .. Len(docs) :
                /\ docs[a].id \in C22_ListedIds(request.ids)
                /\ request.min_schema_version <= docs[a].schema_version
                /\ docs[a].schema_version <= request.max_schema_version}

\* An update check for two ids whose range is the single schema version
\* of the two documents found, one per id.
C22_TwoIdsAtRangeEnds ==
    /\ C21_Answered("updates")
    /\ request.ids = <<"a", ",", "b">>
    /\ request.min_schema_version = request.max_schema_version
    /\ response.data = {1, 2}
    /\ docs[1].id # docs[2].id

\* ---- C23 ------------------------------------------------------------
\* C23: the version-listing query for an id string returns every document
\* whose id equals that string and no document whose id differs from it,
\* for every id string a client can pass in the path.
C23_VersionsReturnsId ==
    C21_Answered("versions") =>
        response.data = {a \in 1 .. Len(docs) : docs[a].id = request.extension_id}

\* A version listing that holds documents of two different ids, neither
\* equal to the id string of the path.
C23_VersionsOfTwoIds ==
    /\ C21_Answered("versions")
    /\ request.extension_id = <<"a", ",", "b">>
    /\ response.data = {1, 2}
    /\ docs[1].id # docs[2].id
    /\ \A a \in response.data : docs[a].id # request.extension_id

\* The listing is exact for an id string without separator and without
\* white space at its ends.
C23_VersionsOfPlainId ==
    C21_Answered("versions") /\ Split(request.extension_id) = <<Trim(request.extension_id)>>
                         /\ Trim(request.extension_id) = request.extension_id =>
        response.data = {a \in 1 .. Len(docs) : docs[a].id = request.extension_id}

\* ---- C24 ------------------------------------------------------------
\* The workers that hold a task, the tasks queued or held, the remaining
\* count of the file series, and the task queue() has counted and is sending.
C24_BusyWorkers == {w \in Threads : Processing(w)}
C24_InFlight == Len(queue) + Cardinality(C24_BusyWorkers)
C24_FilesRemaining == files.total - files.success - files.skipped - files.failed
C24_Enqueueing == IF pc = "q_send" THEN 1 ELSE 0

\* The positions of mirror() inside download_extension_list and
\* download_extensions, next_step excluded.
C24_DownloadPcs == {"p1_build", "q_inc", "q_send", "p2_read", "p2_rec", "w_finish"} \cup WaitPcs

\* Every received task is held by exactly the workers that received it and
\* have not yet recorded its completion.
C24_ReceivedHeldOrRecorded ==
    \A n \in TaskIds :
        recvCnt[n] = succCnt[n] + skipCnt[n]
                     + Cardinality({w \in C24_BusyWorkers : workers[w].task.n = n})

\* C24 (as stated): at every moment the tasks being processed are at most
\* worker_count and the tasks queued or in flight equal the file series'
\* remaining, less the one task the producer is currently enqueueing.
C24_InFlightIsRemaining ==
    /\ Cardinality(C24_BusyWorkers) <= numThreads
    /\ C24_InFlight = C24_FilesRemaining - C24_Enqueueing

\* What holds of the workers, the channel and the file series in every
\* state.
C24_Inv ==
    /\ Cardinality(C24_BusyWorkers) <= numThreads
    /\ pc \notin {"completed", "failed"} => C24_ReceivedHeldOrRecorded
    /\ pc \in C24_DownloadPcs => C24_InFlight = C24_FilesRemaining - C24_Enqueueing

\* A worker that takes a task was idle in recv, and the task leaves the
\* channel in the same step.
C24_Step ==
    \A w \in Threads :
        workers'[w].task # workers[w].task /\ workers'[w].task # NoTask =>
            /\ workers[w].task = NoTask
            /\ workers[w].pc = "recv"
            /\ Len(queue') = Len(queue) - 1

\* C24 (amended): a worker holds at most one task and takes the next only
\* after recording the completion of the one it held; the tasks being
\* processed are at most worker_count at every moment; and while mirror()
\* is inside one of the two download phases the tasks queued or in flight
\* equal the file series' remaining, less the one task queue() has counted
\* and not yet sent.
C24_InFlightIsRemainingInDownloads == [][C24_Inv /\ C24_Inv' /\ C24_Step]_vars

\* Phase 2 with one worker: one archive task is being processed and the
\* other waits on the channel; two files remain.
C24_OneQueuedOneProcessing ==
    /\ numThreads = 1
    /\ step = 2
    /\ pc \in C24_DownloadPcs
    /\ Cardinality(C24_BusyWorkers) = 1
    /\ Len(queue) = 1
    /\ C24_FilesRemaining = 2

\* ---- C25 ------------------------------------------------------------
\* C25: every value computed by remaining() lies in 0..total: no
\* interleaving of its four loads with queue() calls, worker increments or
\* the reset of next_step makes a subtraction go below zero, in the calls of
\* wait_for_completion and in the calls of the periodic updater alike.
C25_RemainingNeverUnderflows ==
    /\ acc >= 0
    /\ upd.acc >= 0
    /\ upd.pc # "panicked"

\* The calls made by mirror() itself, in wait_for_completion, never
\* underflow, and the value they return is at most the total they loaded.
C25_WaitRemainingInRange ==
    pc \in WaitPcs \cup {"w_finish"} => acc \in 0 .. files.total

\* The updater loaded total = 1 while mirror() was still queueing; both
\* archive tasks were recorded before it loaded the next counter.
C25_UnderflowWhileQueueing ==
    /\ step = 2
    /\ pc \in C24_DownloadPcs
    /\ upd.acc < 0
    /\ files.total = 2

\* The updater's last iteration ran into next_step: it loaded total after
\* reset had stored 0 and success before reset had stored 0 there.
C25_UnderflowDuringReset ==
    /\ pc = "ns_reset"
    /\ upd.acc < 0

\* ---- C26 ------------------------------------------------------------
\* The Download of the catalog document is the first one a run builds.
CatalogTask == 1
\* download_extensions has read and parsed the staged catalog document.
C26_CatalogAccepted ==
    \/ step = 2 /\ pc \notin {"p2_read", "failed"}
    \/ step = 2 /\ pc = "failed" /\ recIdx > 0
    \/ step > 2

\* C26: if the catalog download task of phase 1 fails inside the worker the
\* run is not promoted, because phase 2 fails when it opens or parses the
\* staged catalog document; a catalog document that was not completely
\* fetched in this run is never promoted.
C26_FailedCatalogNeverPromoted ==
    /\ outcome[CatalogTask] = "err" => ~C26_CatalogAccepted /\ ~promoted.entered
    /\ promoted.entered => promoted.cat.run = ThisRun

\* A catalog task that failed is followed by a successful phase 2 only over
\* the staged document of an earlier failed run, which the task left as it
\* was (it failed before File::create truncated it).
C26_OnlyStaleCatalogAccepted ==
    /\ (outcome[CatalogTask] = "err" /\ C26_CatalogAccepted /\ ~promoted.entered) =>
            stagCat.run = StaleRun
    /\ promoted.entered => promoted.cat.run \in {ThisRun, StaleRun}
    /\ (promoted.entered /\ promoted.cat.run = ThisRun) => outcome[CatalogTask] = "ok_true"

\* The run has completed although its catalog task failed: the live
\* catalog document is the one an earlier failed run had staged.
C26_StaleCatalogPromoted ==
    /\ pc = "completed"
    /\ outcome[CatalogTask] = "err"
    /\ liveCat.run = StaleRun

\* ---- C27 ------------------------------------------------------------
\* No worker holds a Download whose primary target is archive path k.
C27_Unattended(k) ==
    \A w \in Threads :
        ~(Processing(w) /\ workers[w].task.kind = "arch"
                        /\ <<workers[w].task.id, workers[w].task.version>> = k)

\* C27: whenever an archive file exists at its primary target path and no
\* worker is processing a task for it, the file holds the completely
\* fetched body of a success response: a task that ends in an error after
\* the file was created, or that received a status other than success and
\* other than NOT_FOUND, leaves no file at the target.
C27_ArchivesAreComplete ==
    pc \notin {"completed", "failed"} =>
        \A k \in ArchKeys :
            (archive[k].st # "absent" /\ C27_Unattended(k)) =>
                archive[k].st = "full" /\ archive[k].body = "ok"

\* While the run goes on, an archive task has ended in an error and its
\* target path holds a file that is not a complete body.
C27_IncompleteArchiveLeft ==
    /\ pc \notin {"completed", "failed"}
    /\ \E n \in TaskIds \ {CatalogTask} :
          /\ n - 1 <= Len(extList)
          /\ outcome[n] = "err"
          /\ LET k == <<extList[n - 1].id, extList[n - 1].version>>
             IN  C27_Unattended(k) /\ archive[k].st \in {"empty", "partial"}

\* While the run goes on, an archive task has been counted as success and
\* its target path holds the body of an error status.
C27_ErrorPageKept ==
    /\ pc \notin {"completed", "failed"}
    /\ \E n \in TaskIds \ {CatalogTask} :
          /\ n - 1 <= Len(extList)
          /\ outcome[n] = "ok_true"
          /\ LET k == <<extList[n - 1].id, extList[n - 1].version>>
             IN  C27_Unattended(k) /\ archive[k].st = "full" /\ archive[k].body = "errpage"

\* A second run returns Ok(false) for an archive whose target holds the
\* empty file a failed task of the first run left.
C27_RerunAcceptsEmptyArchive ==
    \E w \in Threads :
        /\ workers[w].pc = "track"
        /\ workers[w].res = "ok_false"
        /\ workers[w].task.kind = "arch"
        /\ TargetOf(workers[w].task).st = "empty"
        /\ TargetOf(workers[w].task).run = PriorRun

\* ---- C28 ------------------------------------------------------------
\* Workers w and v hold archive Downloads of two versions of one id, and
\* both have written their archive completely.
C28_TwoVersionsWritten(w, v) ==
    /\ w # v
    /\ Processing(w) /\ Processing(v)
    /\ workers[w].task.kind = "arch" /\ workers[v].task.kind = "arch"
    /\ workers[w].task.id = workers[v].task.id
    /\ workers[w].task.version # workers[v].task.version
    /\ workers[w].dl /\ workers[v].dl

\* C28: when two workers process tasks for two versions of the same id at
\* the same time, neither task is failed by the other's alias update: a
\* worker that has written its archive and removed the alias can create
\* the alias, so that its task is counted as success.
C28_AliasUpdateNeverFailsOther ==
    \A w, v \in Threads :
        (C28_TwoVersionsWritten(w, v) /\ workers[w].pc = "link_new"
                                 /\ workers[v].pc \in {"link_new", "track"}) =>
            ENABLED (WorkerLinkNew(w) /\ workers'[w].res = "ok_true")

\* Both workers have removed the alias and neither has created it yet.
C28_BothBeforeSymlink(w, v) ==
    /\ C28_TwoVersionsWritten(w, v)
    /\ workers[w].pc = "link_new" /\ workers[v].pc = "link_new"
    /\ alias[workers[w].task.id] = NoStr

\* From the state in which both workers have removed the alias, the worker
\* whose symlink() comes second fails: after v has created the alias, w
\* cannot.
C28_SecondSymlinkFails ==
    [][\A w, v \in Threads :
         (C28_BothBeforeSymlink(w, v) /\ WorkerLinkNew(v) /\ workers'[v].res = "ok_true") =>
            ~(ENABLED (WorkerLinkNew(w) /\ workers'[w].res = "ok_true"))']_vars

\* Both workers have removed the alias and neither has created it yet.
C28_BothRemovedAlias == \E w, v \in Threads : C28_BothBeforeSymlink(w, v)

\* Two versions of one id were written completely by two workers at the
\* same time; one task was counted as success, and the other's
\* download_file has returned an error because the alias of the first was
\* there.
C28_LoserOfAliasRace ==
    \E w, v \in Threads :
        /\ w # v
        /\ workers[w].pc = "track" /\ workers[w].res = "err" /\ workers[w].dl
        /\ workers[w].task.kind = "arch"
        /\ TargetOf(workers[w].task).st = "full"
        /\ workers[v].pc = "track" /\ workers[v].res = "ok_true"
        /\ workers[v].task.kind = "arch"
        /\ workers[v].task.id = workers[w].task.id
        /\ alias[workers[w].task.id] = workers[v].task.version
        /\ workers[v].task.version # workers[w].task.version

\* ---- C29 ------------------------------------------------------------
\* C29: with worker_count = 0 the run terminates: the first queue() call
\* raises the file series' total to 1 and its send() returns an error at
\* once, nothing is put on the channel, mirror() returns the error of
\* phase 1 (or, before that, the error of MirrorCtx::init), and it never
\* enters wait_for_completion.
C29_ZeroWorkersTerminates ==
    /\ <>[](pc = "failed")
    /\ [](pc \notin WaitPcs \cup {"w_finish"})
    /\ [](queue = <<>> /\ step <= 1)
    /\ [](pc = "failed" => errCtx \in {Phase1Ctx, "initializing mirror context"})
    /\ []((pc = "failed" /\ errCtx = Phase1Ctx) => (files.total = 1 /\ enqCnt[CatalogTask] = 0))
    /\ [][pc = "q_send" => pc' = "failed" /\ errCtx' = Phase1Ctx]_vars

\* mirror() has returned the error of phase 1 in a run without workers,
\* with the catalog task counted in the file series' total.
C29_FailedInFirstQueue ==
    /\ numThreads = 0
    /\ pc = "failed"
    /\ errCtx = Phase1Ctx
    /\ files.total = 1
    /\ C24_FilesRemaining = 1

====
